---- MODULE Spec2Model ----
(***************************************************************************)
(* DSAC club website: the storage layer (server/storage.ts: MemStorage and *)
(* PostgreSQLStorage behind IStorage) and the REST handlers that call it   *)
(* (server/routes.ts).                                                     *)
(*                                                                         *)
(* Entities are records; a collection is a function from ids to records.   *)
(* Fields that no operation reads (title, content, timestamps, avatar ...) *)
(* are left out of the records.  The in-memory store keeps the source's    *)
(* field names (forumReplies, forumReplyId ...); the PostgreSQL store      *)
(* keeps the table names (forum_replies, forum_replies_id_seq ...).        *)
(***************************************************************************)
EXTENDS Integers, Sequences, FiniteSets, TLC

\* ------------------------------------------------------------------ bounds
MaxPosts == 2
MaxReplies == 3
MaxUpvotes == 1
MaxUsers == 2
MaxEvents == 2
MaxResults == 3
MaxTxns == 2
MaxRegistrations == 2
MaxRequests == 2
MaxResources == 2

\* id of the admin user both backends seed at construction
AdminId == 1

VARIABLES
  \* which IStorage implementation `storage` is: "mem", "pg", or "both" when a
  \* caller drives the two implementations side by side to compare them
  backend,
  \* MemStorage: the maps and the id counters
  users, userId, events, eventId, eventRegistrations, eventRegistrationId,
  contestResults, contestResultId,
  forumPosts, forumReplies, forumPostId, forumReplyId,
  resources, resourceId,
  \* PostgreSQLStorage: the tables and their SERIAL sequences
  pg_users, users_id_seq, pg_events, events_id_seq,
  event_registrations, event_registrations_id_seq,
  contest_results, contest_results_id_seq,
  forum_posts, forum_replies, forum_posts_id_seq, forum_replies_id_seq,
  pg_resources, resources_id_seq,
  \* the last storage call: its name, arguments and what each backend returned
  last,
  \* PostgreSQLStorage.markAsBestAnswer run by several callers at once: each
  \* pooled client's place in its transaction, its arguments, the rows its
  \* running statement selected and its uncommitted writes
  tx,
  \* the HTTP requests being handled: for each, the route, the session user,
  \* the :id parameter, how far its handler has run, what it has read from
  \* storage, and the status of its response once sent
  req

memForum == <<forumPosts, forumReplies, forumPostId, forumReplyId>>
pgForum == <<forum_posts, forum_replies, forum_posts_id_seq, forum_replies_id_seq>>
memUsers == <<users, userId>>
memEvents == <<events, eventId>>
memRegs == <<eventRegistrations, eventRegistrationId>>
memResults == <<contestResults, contestResultId>>
memResources == <<resources, resourceId>>
memBoard == <<memUsers, memEvents, memRegs, memResults, memResources>>
pgUsers == <<pg_users, users_id_seq>>
pgEvents == <<pg_events, events_id_seq>>
pgRegs == <<event_registrations, event_registrations_id_seq>>
pgResults == <<contest_results, contest_results_id_seq>>
pgResources == <<pg_resources, resources_id_seq>>
pgBoard == <<pgUsers, pgEvents, pgRegs, pgResults, pgResources>>
memAll == <<memBoard, memForum>>
pgAll == <<pgBoard, pgForum>>
vars == <<backend, memAll, pgAll, last, tx, req>>

\* ----------------------------------------------------------------- helpers
\* Map.set(k, v) / Map.delete(k) on a collection
MapSet(m, k, v) == [x \in DOMAIN m \cup {k} |-> IF x = k THEN v ELSE m[x]]
MapDelete(m, k) == [x \in DOMAIN m \ {k} |-> m[x]]
\* { ...r, ...d }: the fields of d laid over those of r
Merge(r, d) == [f \in DOMAIN r \cup DOMAIN d |-> IF f \in DOMAIN d THEN d[f] ELSE r[f]]

\* results of a call: a thrown error, undefined, or a value
Null == <<"null">>
NotCalled == <<"none">>
Threw == <<"error">>
Undefined == <<"undefined">>
Ret(v) == <<"ok", v>>

PostIds == 1..MaxPosts
ReplyIds == 1..MaxReplies
UserIds == 1..MaxUsers
EventIds == 1..MaxEvents
ResultIds == 1..MaxResults
\* contest scores
Scores == {50, 80}

\* the keys of a collection in ascending order: the order in which a Map whose
\* keys come from an increasing counter is iterated
RECURSIVE KeySeq(_)
KeySeq(S) ==
  IF S = {} THEN << >>
  ELSE LET m == CHOOSE x \in S : \A y \in S : x <= y
       IN  <<m>> \o KeySeq(S \ {m})

\* the sum of the scores of the rows with keys in S
RECURSIVE SumScore(_, _)
SumScore(rows, S) ==
  IF S = {} THEN 0
  ELSE LET k == CHOOSE x \in S : TRUE
       IN  rows[k].score + SumScore(rows, S \ {k})

\* the orderings of a finite set
RECURSIVE Perms(_)
Perms(S) ==
  IF S = {} THEN {<< >>}
  ELSE UNION {{<<x>> \o q : q \in Perms(S \ {x})} : x \in S}

\* ------------------------------------------- MemStorage: users and events
\* id of the event updateLeaderboardEntry files its contest result under
PlaceholderEventId == 1

\* (a counter that is not advanced)
MemNextIdSame(counter) == counter

\* const id = this.userId++ (and the like): the counter after the create
MemNextId(counter) == counter + 1

\* InsertUser objects: the schema's fields only (<<>>), or with role and level
\* fields besides
Newcomer == << >>
UserInputs ==
  {Newcomer, [role |-> "admin"], [level |-> "advanced"],
   [role |-> "admin", level |-> "advanced"]}

\* (the input's fields laid over the defaults)
MemNewUserAsGiven(insertUser, id) ==
  Merge([id |-> id, role |-> "member", level |-> "beginner"], insertUser)

\* { ...insertUser, id, role: "member", level: "beginner", ... }
MemNewUser(insertUser, id) ==
  Merge(insertUser, [id |-> id, role |-> "member", level |-> "beginner"])
MemAdmin == [id |-> AdminId, role |-> "admin", level |-> "advanced"]
MemNewEvent(id, uid) == [id |-> id, createdBy |-> uid]

MemNewRegistration(id, eid, uid) == [id |-> id, eventId |-> eid, userId |-> uid]

\* (a lookup that finds no registration)
MemRegisteredNever(regs, eid, uid) == FALSE

\* getEventRegistration: is there a registration of the user for the event
MemRegistered(regs, eid, uid) ==
  \E k \in DOMAIN regs : regs[k].eventId = eid /\ regs[k].userId = uid

MemNewContestResult(id, eid, uid, s) ==
  [id |-> id, eventId |-> eid, userId |-> uid, position |-> Null, score |-> s]

\* ------------------------------------------------ MemStorage: leaderboard
\* (a pass that replaces the user's total by the result's score)
MemAddScoreOverwrite(acc, r) ==
  IF \E i \in DOMAIN acc : acc[i].userId = r.userId
    THEN [i \in DOMAIN acc |->
            IF acc[i].userId = r.userId
              THEN [acc[i] EXCEPT !.totalScore = r.score, !.contestCount = @ + 1]
              ELSE acc[i]]
    ELSE Append(acc, [userId |-> r.userId, totalScore |-> r.score, contestCount |-> 1])

\* one pass of getLeaderboard's loop over the contest results: the entry of
\* the result's user gets the score added and its contest count raised
MemAddScore(acc, r) ==
  IF \E i \in DOMAIN acc : acc[i].userId = r.userId
    THEN [i \in DOMAIN acc |->
            IF acc[i].userId = r.userId
              THEN [acc[i] EXCEPT !.totalScore = @ + r.score, !.contestCount = @ + 1]
              ELSE acc[i]]
    ELSE Append(acc, [userId |-> r.userId, totalScore |-> 0 + r.score,
                      contestCount |-> 0 + 1])

\* userScores after the loop, in the Map's order (first result of each user)
RECURSIVE MemUserScores(_, _)
MemUserScores(results, ks) ==
  IF ks = << >> THEN << >>
  ELSE MemAddScore(MemUserScores(results, SubSeq(ks, 1, Len(ks) - 1)),
                   results[ks[Len(ks)]])

\* the rows of the scored users that exist (the others map to null and are
\* filtered out)
RECURSIVE MemRows(_, _)
MemRows(acc, usrs) ==
  IF acc = << >> THEN << >>
  ELSE LET e == Head(acc)
       IN  (IF e.userId \in DOMAIN usrs
              THEN <<[id |-> usrs[e.userId].id, score |-> e.totalScore,
                      contestCount |-> e.contestCount]>>
              ELSE << >>) \o MemRows(Tail(acc), usrs)

\* (a comparison the other way round: a - b)
MemInsertAscending(sorted, row) ==
  LET n == Cardinality({i \in DOMAIN sorted : sorted[i].score <= row.score})
  IN  SubSeq(sorted, 1, n) \o <<row>> \o SubSeq(sorted, n + 1, Len(sorted))

\* Array.prototype.sort((a, b) => b.score - a.score): stable, so a row goes
\* behind every row placed before it whose score is not smaller
MemInsert(sorted, row) ==
  LET n == Cardinality({i \in DOMAIN sorted : sorted[i].score >= row.score})
  IN  SubSeq(sorted, 1, n) \o <<row>> \o SubSeq(sorted, n + 1, Len(sorted))

RECURSIVE MemSortByScore(_)
MemSortByScore(rows) ==
  IF rows = << >> THEN << >>
  ELSE MemInsert(MemSortByScore(SubSeq(rows, 1, Len(rows) - 1)), rows[Len(rows)])

MemGetLeaderboard(results, usrs) ==
  MemSortByScore(MemRows(MemUserScores(results, KeySeq(DOMAIN results)), usrs))

\* leaderboard.find(entry => entry.id === userId) || null
MemFindEntry(lb, uid) ==
  IF \E i \in DOMAIN lb : lb[i].id = uid
    THEN Ret(lb[CHOOSE i \in DOMAIN lb :
                  lb[i].id = uid /\ \A j \in 1..(i - 1) : lb[j].id # uid])
    ELSE Ret(Null)

\* updateLeaderboardEntry: `if (data.score)` holds for a score that is given
\* and is not 0
ScoreGiven(data) == "score" \in DOMAIN data /\ data.score # 0

\* ------------------------------------- PostgreSQLStorage: users and events
\* INSERT INTO users (...) with the constants 'member' and 'beginner'
PgNewUser(insertUser, id) == [id |-> id, role |-> "member", level |-> "beginner"]
PgAdmin == [id |-> AdminId, role |-> "admin", level |-> "advanced"]
PgNewEvent(id, uid) == [id |-> id, createdBy |-> uid]

PgNewRegistration(id, eid, uid) == [id |-> id, eventId |-> eid, userId |-> uid]

\* SELECT * FROM event_registrations WHERE event_id = $1 AND user_id = $2
PgRegistered(rows, eid, uid) ==
  \E k \in DOMAIN rows : rows[k].eventId = eid /\ rows[k].userId = uid

\* event_registrations: event_id REFERENCES events(id), user_id REFERENCES
\* users(id), UNIQUE(event_id, user_id)
PgRegistrationOk(rows, evts, usrs, eid, uid) ==
  eid \in DOMAIN evts /\ uid \in DOMAIN usrs /\ ~PgRegistered(rows, eid, uid)

PgNewContestResult(id, eid, uid, s) ==
  [id |-> id, eventId |-> eid, userId |-> uid, position |-> Null, score |-> s]

\* contest_results.event_id REFERENCES events(id), user_id REFERENCES users(id)
PgResultKeysOk(evts, usrs, eid, uid) == eid \in DOMAIN evts /\ uid \in DOMAIN usrs

\* ... ON DELETE CASCADE
PgCascadeEvent(rows, id) ==
  [k \in {x \in DOMAIN rows : rows[x].eventId # id} |-> rows[k]]

\* ------------------------------------------ PostgreSQLStorage: leaderboard
PgResultsOf(rows, uid) == {k \in DOMAIN rows : rows[k].userId = uid}

\* SELECT u.id, SUM(cr.score) AS score, COUNT(DISTINCT cr.event_id) AS
\* "contestCount" FROM users u JOIN contest_results cr ON u.id = cr.user_id
\* GROUP BY u.id
PgLeaderboardRow(rows, uid) ==
  [id |-> uid, score |-> SumScore(rows, PgResultsOf(rows, uid)),
   contestCount |-> Cardinality({rows[k].eventId : k \in PgResultsOf(rows, uid)})]

PgLeaderboardRows(rows, usrs) ==
  {PgLeaderboardRow(rows, u) : u \in {x \in DOMAIN usrs : PgResultsOf(rows, x) # {}}}

\* ORDER BY score DESC: any order of the rows in which no score rises
PgOrdered(S) ==
  {q \in Perms(S) : \A i \in 1..(Len(q) - 1) : q[i].score >= q[i + 1].score}

\* updateLeaderboardEntry's query: users u LEFT JOIN contest_results cr
\* ... WHERE u.id = $1 GROUP BY u.id; SUM over no row is NULL
PgFindEntry(rows, usrs, uid) ==
  IF uid \notin DOMAIN usrs THEN Ret(Null)
  ELSE IF PgResultsOf(rows, uid) = {}
    THEN Ret([id |-> uid, score |-> Null, contestCount |-> 0])
    ELSE Ret(PgLeaderboardRow(rows, uid))

\* ------------------------------------------------------ MemStorage: forum
MemNewForumPost(id, uid) == [id |-> id, userId |-> uid, views |-> 0]

MemNewForumReply(id, pid, uid) ==
  [id |-> id, postId |-> pid, userId |-> uid, upvotes |-> 0, isBestAnswer |-> FALSE]

\* (a loop that removes no reply)
MemCascadeNoDelete(replies, id) == replies

\* deleteForumPost's loop: every reply of the post is removed
MemCascade(replies, id) ==
  [k \in {x \in DOMAIN replies : replies[x].postId # id} |-> replies[k]]

\* (a loop that resets nothing)
MemResetBestNone(replies, pid) == replies

\* markAsBestAnswer's first loop: reset the best answers of the post
MemResetBest(replies, pid) ==
  [k \in DOMAIN replies |->
     IF replies[k].postId = pid /\ replies[k].isBestAnswer
       THEN [replies[k] EXCEPT !.isBestAnswer = FALSE]
       ELSE replies[k]]

\* incrementForumPostViews: post.views += 1
MemViewed(post) == [post EXCEPT !.views = @ + 1]

\* (an upvote that is counted once only)
MemUpvotedOnce(reply) == [reply EXCEPT !.upvotes = 1]

\* upvoteForumReply: reply.upvotes += 1
MemUpvoted(reply) == [reply EXCEPT !.upvotes = @ + 1]

\* (a call that flips the reply's flag instead of setting it)
MemMarkedFlip(replies, pid, rid) ==
  IF rid \in DOMAIN replies
    THEN [replies EXCEPT ![rid].isBestAnswer = ~@]
    ELSE replies

\* markAsBestAnswer: the replies after the call (the reset is kept when the
\* reply is missing and the call throws)
MemMarked(replies, pid, rid) ==
  LET reset == MemResetBest(replies, pid)
  IN  IF rid \in DOMAIN reset
        THEN [reset EXCEPT ![rid].isBestAnswer = TRUE]
        ELSE reset

MemMarkResult(replies, pid, rid) ==
  IF rid \in DOMAIN replies THEN Ret(MemMarked(replies, pid, rid)[rid]) ELSE Threw

\* -------------------------------------------------- MemStorage: resources
MemNewResource(id, uid) == [id |-> id, userId |-> uid]

\* ------------------------------------------------ PostgreSQLStorage: forum
PgNewForumPost(id, uid) == [id |-> id, userId |-> uid, views |-> 0]

PgNewForumReply(id, pid, uid) ==
  [id |-> id, postId |-> pid, userId |-> uid, upvotes |-> 0, isBestAnswer |-> FALSE]

\* forum_replies: post_id REFERENCES forum_posts(id), user_id REFERENCES
\* users(id)
PgReplyKeysOk(posts, usrs, pid, uid) == pid \in DOMAIN posts /\ uid \in DOMAIN usrs

\* forum_replies.post_id REFERENCES forum_posts(id) ON DELETE CASCADE
PgCascade(rows, id) ==
  [k \in {x \in DOMAIN rows : rows[x].postId # id} |-> rows[k]]

\* UPDATE forum_replies SET is_best_answer = FALSE
\*   WHERE post_id = $1 AND is_best_answer = TRUE
PgResetBest(rows, pid) ==
  [k \in DOMAIN rows |->
     IF rows[k].postId = pid /\ rows[k].isBestAnswer
       THEN [rows[k] EXCEPT !.isBestAnswer = FALSE]
       ELSE rows[k]]

\* UPDATE ... SET is_best_answer = TRUE WHERE id = $1 AND post_id = $2 matches
PgMarkHits(rows, pid, rid) == rid \in DOMAIN rows /\ rows[rid].postId = pid

\* markAsBestAnswer's transaction run alone: COMMIT, or ROLLBACK when no row
\* matched
PgMarked(rows, pid, rid) ==
  IF PgMarkHits(rows, pid, rid)
    THEN [PgResetBest(rows, pid) EXCEPT ![rid].isBestAnswer = TRUE]
    ELSE rows

PgMarkResult(rows, pid, rid) ==
  IF PgMarkHits(rows, pid, rid) THEN Ret(PgMarked(rows, pid, rid)[rid]) ELSE Threw

PgNewResource(id, uid) == [id |-> id, userId |-> uid]

\* updateForumPost's dynamic UPDATE: only title, content and tags are written
PgPostUpdate(row, d) ==
  [f \in DOMAIN row |->
     IF f \in {"title", "content", "tags"} /\ f \in DOMAIN d THEN d[f] ELSE row[f]]

\* UPDATE forum_posts SET views = views + 1
PgViewed(row) == [row EXCEPT !.views = @ + 1]

\* UPDATE forum_replies SET upvotes = upvotes + 1
PgUpvoted(row) == [row EXCEPT !.upvotes = @ + 1]

\* updateForumReply's dynamic UPDATE: only content, upvotes and isBestAnswer
\* are written
PgReplyUpdate(row, d) ==
  [f \in DOMAIN row |->
     IF f \in {"upvotes", "isBestAnswer"} /\ f \in DOMAIN d THEN d[f] ELSE row[f]]

\* ------------------------------------------------ MemStorage operations
Mem_createUser(insertUser) ==
  /\ users' = MapSet(users, userId, MemNewUser(insertUser, userId))
  /\ userId' = MemNextId(userId)
  /\ UNCHANGED <<memEvents, memRegs, memResults, memForum, memResources>>

Mem_createEvent(uid) ==
  /\ events' = MapSet(events, eventId, MemNewEvent(eventId, uid))
  /\ eventId' = MemNextId(eventId)
  /\ UNCHANGED <<memUsers, memRegs, memResults, memForum, memResources>>

Mem_deleteEvent(id) ==
  /\ events' = MapDelete(events, id)
  /\ UNCHANGED <<memUsers, eventId, memRegs, memResults, memForum, memResources>>

Mem_createEventRegistration(eid, uid) ==
  /\ eventRegistrations' = MapSet(eventRegistrations, eventRegistrationId,
                                  MemNewRegistration(eventRegistrationId, eid, uid))
  /\ eventRegistrationId' = MemNextId(eventRegistrationId)
  /\ UNCHANGED <<memUsers, memEvents, memResults, memForum, memResources>>

Mem_createContestResult(eid, uid, s) ==
  /\ contestResults' = MapSet(contestResults, contestResultId,
                              MemNewContestResult(contestResultId, eid, uid, s))
  /\ contestResultId' = MemNextId(contestResultId)
  /\ UNCHANGED <<memUsers, memEvents, memRegs, memForum, memResources>>

Mem_deleteContestResult(id) ==
  /\ contestResults' = MapDelete(contestResults, id)
  /\ UNCHANGED <<memUsers, memEvents, memRegs, contestResultId, memForum, memResources>>

\* throws "User not found" before anything is written
Mem_updateLeaderboardEntry(uid, data) ==
  IF uid \in DOMAIN users /\ ScoreGiven(data)
    THEN Mem_createContestResult(PlaceholderEventId, uid, data.score)
    ELSE UNCHANGED memAll

MemLeaderboardEntryResult(uid, data) ==
  IF uid \notin DOMAIN users THEN Threw
  ELSE MemFindEntry(
         MemGetLeaderboard(
           IF ScoreGiven(data)
             THEN MapSet(contestResults, contestResultId,
                         MemNewContestResult(contestResultId, PlaceholderEventId,
                                             uid, data.score))
             ELSE contestResults,
           users),
         uid)

Mem_createForumPost(uid) ==
  /\ forumPosts' = MapSet(forumPosts, forumPostId, MemNewForumPost(forumPostId, uid))
  /\ forumPostId' = MemNextId(forumPostId)
  /\ UNCHANGED <<memBoard, forumReplies, forumReplyId>>

Mem_deleteForumPost(id) ==
  /\ forumReplies' = MemCascade(forumReplies, id)
  /\ forumPosts' = MapDelete(forumPosts, id)
  /\ UNCHANGED <<memBoard, forumPostId, forumReplyId>>

Mem_updateForumPost(id, d) ==
  /\ forumPosts' =
       IF id \in DOMAIN forumPosts
         THEN MapSet(forumPosts, id, Merge(forumPosts[id], d))
         ELSE forumPosts
  /\ UNCHANGED <<memBoard, forumReplies, forumPostId, forumReplyId>>

Mem_incrementForumPostViews(id) ==
  /\ forumPosts' =
       IF id \in DOMAIN forumPosts
         THEN [forumPosts EXCEPT ![id] = MemViewed(@)]
         ELSE forumPosts
  /\ UNCHANGED <<memBoard, forumReplies, forumPostId, forumReplyId>>

Mem_createForumReply(pid, uid) ==
  /\ forumReplies' = MapSet(forumReplies, forumReplyId,
                            MemNewForumReply(forumReplyId, pid, uid))
  /\ forumReplyId' = MemNextId(forumReplyId)
  /\ UNCHANGED <<memBoard, forumPosts, forumPostId>>

Mem_upvoteForumReply(id) ==
  /\ forumReplies' =
       IF id \in DOMAIN forumReplies
         THEN [forumReplies EXCEPT ![id] = MemUpvoted(@)]
         ELSE forumReplies
  /\ UNCHANGED <<memBoard, forumPosts, forumPostId, forumReplyId>>

Mem_updateForumReply(id, d) ==
  /\ forumReplies' =
       IF id \in DOMAIN forumReplies
         THEN MapSet(forumReplies, id, Merge(forumReplies[id], d))
         ELSE forumReplies
  /\ UNCHANGED <<memBoard, forumPosts, forumPostId, forumReplyId>>

Mem_deleteForumReply(id) ==
  /\ forumReplies' = MapDelete(forumReplies, id)
  /\ UNCHANGED <<memBoard, forumPosts, forumPostId, forumReplyId>>

Mem_markAsBestAnswer(pid, rid) ==
  /\ forumReplies' = MemMarked(forumReplies, pid, rid)
  /\ UNCHANGED <<memBoard, forumPosts, forumPostId, forumReplyId>>

Mem_createResource(uid) ==
  /\ resources' = MapSet(resources, resourceId, MemNewResource(resourceId, uid))
  /\ resourceId' = MemNextId(resourceId)
  /\ UNCHANGED <<memUsers, memEvents, memRegs, memResults, memForum>>

\* ----------------------------------------- PostgreSQLStorage operations
Pg_createUser(insertUser) ==
  /\ pg_users' = MapSet(pg_users, users_id_seq, PgNewUser(insertUser, users_id_seq))
  /\ users_id_seq' = users_id_seq + 1
  /\ UNCHANGED <<pgEvents, pgRegs, pgResults, pgForum, pgResources>>

\* events.created_by REFERENCES users(id)
Pg_createEvent(uid) ==
  /\ events_id_seq' = events_id_seq + 1
  /\ pg_events' =
       IF uid \in DOMAIN pg_users
         THEN MapSet(pg_events, events_id_seq, PgNewEvent(events_id_seq, uid))
         ELSE pg_events
  /\ UNCHANGED <<pgUsers, pgRegs, pgResults, pgForum, pgResources>>

Pg_deleteEvent(id) ==
  /\ pg_events' = MapDelete(pg_events, id)
  /\ event_registrations' = PgCascadeEvent(event_registrations, id)
  /\ contest_results' = PgCascadeEvent(contest_results, id)
  /\ UNCHANGED <<pgUsers, events_id_seq, event_registrations_id_seq,
                 contest_results_id_seq, pgForum, pgResources>>

\* the INSERT fails on UNIQUE(event_id, user_id) or on a foreign key
Pg_createEventRegistration(eid, uid) ==
  /\ event_registrations_id_seq' = event_registrations_id_seq + 1
  /\ event_registrations' =
       IF PgRegistrationOk(event_registrations, pg_events, pg_users, eid, uid)
         THEN MapSet(event_registrations, event_registrations_id_seq,
                     PgNewRegistration(event_registrations_id_seq, eid, uid))
         ELSE event_registrations
  /\ UNCHANGED <<pgUsers, pgEvents, pgResults, pgForum, pgResources>>

Pg_createContestResult(eid, uid, s) ==
  /\ contest_results_id_seq' = contest_results_id_seq + 1
  /\ contest_results' =
       IF PgResultKeysOk(pg_events, pg_users, eid, uid)
         THEN MapSet(contest_results, contest_results_id_seq,
                     PgNewContestResult(contest_results_id_seq, eid, uid, s))
         ELSE contest_results
  /\ UNCHANGED <<pgUsers, pgEvents, pgRegs, pgForum, pgResources>>

Pg_deleteContestResult(id) ==
  /\ contest_results' = MapDelete(contest_results, id)
  /\ UNCHANGED <<pgUsers, pgEvents, pgRegs, contest_results_id_seq, pgForum, pgResources>>

Pg_updateLeaderboardEntry(uid, data) ==
  IF ScoreGiven(data)
    THEN Pg_createContestResult(PlaceholderEventId, uid, data.score)
    ELSE UNCHANGED pgAll

PgLeaderboardEntryResult(uid, data) ==
  IF ScoreGiven(data)
    THEN IF PgResultKeysOk(pg_events, pg_users, PlaceholderEventId, uid)
           THEN PgFindEntry(
                  MapSet(contest_results, contest_results_id_seq,
                         PgNewContestResult(contest_results_id_seq,
                                            PlaceholderEventId, uid, data.score)),
                  pg_users, uid)
           ELSE Threw
    ELSE PgFindEntry(contest_results, pg_users, uid)

\* the INSERT fails on the foreign key user_id -> users(id) when the user is
\* missing; nextval has been taken by then
Pg_createForumPost(uid) ==
  /\ forum_posts' =
       IF uid \in DOMAIN pg_users
         THEN MapSet(forum_posts, forum_posts_id_seq,
                     PgNewForumPost(forum_posts_id_seq, uid))
         ELSE forum_posts
  /\ forum_posts_id_seq' = forum_posts_id_seq + 1
  /\ UNCHANGED <<pgBoard, forum_replies, forum_replies_id_seq>>

Pg_deleteForumPost(id) ==
  /\ forum_replies' = PgCascade(forum_replies, id)
  /\ forum_posts' = MapDelete(forum_posts, id)
  /\ UNCHANGED <<pgBoard, forum_posts_id_seq, forum_replies_id_seq>>

Pg_updateForumPost(id, d) ==
  /\ forum_posts' =
       IF id \in DOMAIN forum_posts
         THEN MapSet(forum_posts, id, PgPostUpdate(forum_posts[id], d))
         ELSE forum_posts
  /\ UNCHANGED <<pgBoard, forum_replies, forum_posts_id_seq, forum_replies_id_seq>>

Pg_incrementForumPostViews(id) ==
  /\ forum_posts' =
       IF id \in DOMAIN forum_posts
         THEN [forum_posts EXCEPT ![id] = PgViewed(@)]
         ELSE forum_posts
  /\ UNCHANGED <<pgBoard, forum_replies, forum_posts_id_seq, forum_replies_id_seq>>

\* the INSERT fails on a foreign key when the post or the user is missing;
\* nextval has been taken by then
Pg_createForumReply(pid, uid) ==
  /\ forum_replies_id_seq' = forum_replies_id_seq + 1
  /\ forum_replies' =
       IF PgReplyKeysOk(forum_posts, pg_users, pid, uid)
         THEN MapSet(forum_replies, forum_replies_id_seq,
                     PgNewForumReply(forum_replies_id_seq, pid, uid))
         ELSE forum_replies
  /\ UNCHANGED <<pgBoard, forum_posts, forum_posts_id_seq>>

Pg_upvoteForumReply(id) ==
  /\ forum_replies' =
       IF id \in DOMAIN forum_replies
         THEN [forum_replies EXCEPT ![id] = PgUpvoted(@)]
         ELSE forum_replies
  /\ UNCHANGED <<pgBoard, forum_posts, forum_posts_id_seq, forum_replies_id_seq>>

Pg_updateForumReply(id, d) ==
  /\ forum_replies' =
       IF id \in DOMAIN forum_replies
         THEN MapSet(forum_replies, id, PgReplyUpdate(forum_replies[id], d))
         ELSE forum_replies
  /\ UNCHANGED <<pgBoard, forum_posts, forum_posts_id_seq, forum_replies_id_seq>>

Pg_deleteForumReply(id) ==
  /\ forum_replies' = MapDelete(forum_replies, id)
  /\ UNCHANGED <<pgBoard, forum_posts, forum_posts_id_seq, forum_replies_id_seq>>

Pg_markAsBestAnswer(pid, rid) ==
  /\ forum_replies' = PgMarked(forum_replies, pid, rid)
  /\ UNCHANGED <<pgBoard, forum_posts, forum_posts_id_seq, forum_replies_id_seq>>

\* resources.user_id REFERENCES users(id)
Pg_createResource(uid) ==
  /\ pg_resources' =
       IF uid \in DOMAIN pg_users
         THEN MapSet(pg_resources, resources_id_seq, PgNewResource(resources_id_seq, uid))
         ELSE pg_resources
  /\ resources_id_seq' = resources_id_seq + 1
  /\ UNCHANGED <<pgUsers, pgEvents, pgRegs, pgResults, pgForum>>

\* ------------------------------------------------------- calls on `storage`
\* `storage` is one of the two implementations (or, for the comparison, both
\* are given the same call); M and P are the call on each, mr and pr what
\* each returns.
OnMem == backend \in {"mem", "both"}
OnPg == backend \in {"pg", "both"}

Dispatch(M, P) ==
  IF backend = "mem" THEN M /\ UNCHANGED pgAll
  ELSE IF backend = "pg" THEN P /\ UNCHANGED memAll
  ELSE M /\ P

\* `was` keeps, for a call that works on the replies of one post, the ids it
\* selected before it ran (markAsBestAnswer: the post's best answers;
\* deleteForumPost: the post's replies)
CallWas(op, a, M, P, mr, pr, mw, pw) ==
  /\ Dispatch(M, P)
  /\ last' = [op |-> op, a |-> a,
              mem |-> IF OnMem THEN mr ELSE NotCalled,
              pg |-> IF OnPg THEN pr ELSE NotCalled,
              was |-> [mem |-> IF OnMem THEN mw ELSE {},
                       pg |-> IF OnPg THEN pw ELSE {}]]
  /\ UNCHANGED <<backend, tx, req>>

Call(op, a, M, P, mr, pr) == CallWas(op, a, M, P, mr, pr, {}, {})

\* the replies of post pid, and those of them that are best answers
RepliesOf(replies, pid) == {k \in DOMAIN replies : replies[k].postId = pid}
BestOf(replies, pid) == {k \in RepliesOf(replies, pid) : replies[k].isBestAnswer}

\* Partial<ForumPost> bodies; <<>> stands for one with title, content or tags
PostData == {[views |-> 0], << >>}

\* Partial<ForumReply> bodies; <<>> stands for one with content only
ReplyData ==
  {[isBestAnswer |-> TRUE], [isBestAnswer |-> FALSE], [upvotes |-> 0], << >>}
    \cup {[postId |-> p] : p \in PostIds}

\* { score?: number } bodies of updateLeaderboardEntry
LeaderboardData == {[score |-> s] : s \in Scores \cup {0}} \cup {<< >>}

createUser(insertUser) ==
  /\ OnMem => userId <= MaxUsers
  /\ OnPg => users_id_seq <= MaxUsers
  /\ Call("createUser", <<insertUser>>,
          Mem_createUser(insertUser), Pg_createUser(insertUser),
          Ret(MemNewUser(insertUser, userId)), Ret(PgNewUser(insertUser, users_id_seq)))

createEvent(uid) ==
  /\ OnMem => eventId <= MaxEvents
  /\ OnPg => events_id_seq <= MaxEvents
  /\ Call("createEvent", <<uid>>, Mem_createEvent(uid), Pg_createEvent(uid),
          Ret(MemNewEvent(eventId, uid)),
          IF uid \in DOMAIN pg_users
            THEN Ret(PgNewEvent(events_id_seq, uid)) ELSE Threw)

deleteEvent(id) ==
  Call("deleteEvent", <<id>>, Mem_deleteEvent(id), Pg_deleteEvent(id),
       Ret(id \in DOMAIN events), Ret(id \in DOMAIN pg_events))

createEventRegistration(eid, uid) ==
  /\ OnMem => eventRegistrationId <= MaxRegistrations
  /\ OnPg => event_registrations_id_seq <= MaxRegistrations
  /\ Call("createEventRegistration", <<eid, uid>>,
          Mem_createEventRegistration(eid, uid), Pg_createEventRegistration(eid, uid),
          Ret(MemNewRegistration(eventRegistrationId, eid, uid)),
          IF PgRegistrationOk(event_registrations, pg_events, pg_users, eid, uid)
            THEN Ret(PgNewRegistration(event_registrations_id_seq, eid, uid))
            ELSE Threw)

createContestResult(eid, uid, s) ==
  /\ OnMem => contestResultId <= MaxResults
  /\ OnPg => contest_results_id_seq <= MaxResults
  /\ Call("createContestResult", <<eid, uid, s>>,
          Mem_createContestResult(eid, uid, s), Pg_createContestResult(eid, uid, s),
          Ret(MemNewContestResult(contestResultId, eid, uid, s)),
          IF PgResultKeysOk(pg_events, pg_users, eid, uid)
            THEN Ret(PgNewContestResult(contest_results_id_seq, eid, uid, s))
            ELSE Threw)

deleteContestResult(id) ==
  Call("deleteContestResult", <<id>>,
       Mem_deleteContestResult(id), Pg_deleteContestResult(id),
       Ret(id \in DOMAIN contestResults), Ret(id \in DOMAIN contest_results))

updateLeaderboardEntry(uid, data) ==
  /\ OnMem /\ ScoreGiven(data) => contestResultId <= MaxResults
  /\ OnPg /\ ScoreGiven(data) => contest_results_id_seq <= MaxResults
  /\ Call("updateLeaderboardEntry", <<uid, data>>,
          Mem_updateLeaderboardEntry(uid, data), Pg_updateLeaderboardEntry(uid, data),
          MemLeaderboardEntryResult(uid, data), PgLeaderboardEntryResult(uid, data))

\* the PostgreSQL rows come in any order the ORDER BY allows
getLeaderboard ==
  \E ord \in PgOrdered(PgLeaderboardRows(contest_results, pg_users)) :
    Call("getLeaderboard", << >>, UNCHANGED memAll, UNCHANGED pgAll,
         Ret(MemGetLeaderboard(contestResults, users)), Ret(ord))

createForumPost(uid) ==
  /\ OnMem => forumPostId <= MaxPosts
  /\ OnPg => forum_posts_id_seq <= MaxPosts
  /\ Call("createForumPost", <<uid>>,
          Mem_createForumPost(uid), Pg_createForumPost(uid),
          Ret(MemNewForumPost(forumPostId, uid)),
          IF uid \in DOMAIN pg_users
            THEN Ret(PgNewForumPost(forum_posts_id_seq, uid)) ELSE Threw)

createResource(uid) ==
  /\ OnMem => resourceId <= MaxResources
  /\ OnPg => resources_id_seq <= MaxResources
  /\ Call("createResource", <<uid>>,
          Mem_createResource(uid), Pg_createResource(uid),
          Ret(MemNewResource(resourceId, uid)),
          IF uid \in DOMAIN pg_users
            THEN Ret(PgNewResource(resources_id_seq, uid)) ELSE Threw)

deleteForumPost(id) ==
  CallWas("deleteForumPost", <<id>>,
          Mem_deleteForumPost(id), Pg_deleteForumPost(id),
          Ret(id \in DOMAIN forumPosts), Ret(id \in DOMAIN forum_posts),
          RepliesOf(forumReplies, id), RepliesOf(forum_replies, id))

createForumReply(pid, uid) ==
  /\ OnMem => forumReplyId <= MaxReplies
  /\ OnPg => forum_replies_id_seq <= MaxReplies
  /\ Call("createForumReply", <<pid, uid>>,
          Mem_createForumReply(pid, uid), Pg_createForumReply(pid, uid),
          Ret(MemNewForumReply(forumReplyId, pid, uid)),
          IF PgReplyKeysOk(forum_posts, pg_users, pid, uid)
            THEN Ret(PgNewForumReply(forum_replies_id_seq, pid, uid))
            ELSE Threw)

upvoteForumReply(id) ==
  /\ OnMem /\ id \in DOMAIN forumReplies => forumReplies[id].upvotes < MaxUpvotes
  /\ OnPg /\ id \in DOMAIN forum_replies => forum_replies[id].upvotes < MaxUpvotes
  /\ Call("upvoteForumReply", <<id>>,
          Mem_upvoteForumReply(id), Pg_upvoteForumReply(id),
          IF id \in DOMAIN forumReplies
            THEN Ret(MemUpvoted(forumReplies[id])) ELSE Threw,
          IF id \in DOMAIN forum_replies
            THEN Ret(PgUpvoted(forum_replies[id])) ELSE Threw)

updateForumPost(id, d) ==
  Call("updateForumPost", <<id, d>>,
       Mem_updateForumPost(id, d), Pg_updateForumPost(id, d),
       IF id \in DOMAIN forumPosts
         THEN Ret(Merge(forumPosts[id], d)) ELSE Undefined,
       IF id \in DOMAIN forum_posts
         THEN Ret(PgPostUpdate(forum_posts[id], d)) ELSE Undefined)

updateForumReply(id, d) ==
  Call("updateForumReply", <<id, d>>,
       Mem_updateForumReply(id, d), Pg_updateForumReply(id, d),
       IF id \in DOMAIN forumReplies
         THEN Ret(Merge(forumReplies[id], d)) ELSE Undefined,
       IF id \in DOMAIN forum_replies
         THEN Ret(PgReplyUpdate(forum_replies[id], d)) ELSE Undefined)

deleteForumReply(id) ==
  Call("deleteForumReply", <<id>>,
       Mem_deleteForumReply(id), Pg_deleteForumReply(id),
       Ret(id \in DOMAIN forumReplies), Ret(id \in DOMAIN forum_replies))

markAsBestAnswer(pid, rid) ==
  CallWas("markAsBestAnswer", <<pid, rid>>,
          Mem_markAsBestAnswer(pid, rid), Pg_markAsBestAnswer(pid, rid),
          MemMarkResult(forumReplies, pid, rid),
          PgMarkResult(forum_replies, pid, rid),
          BestOf(forumReplies, pid), BestOf(forum_replies, pid))

\* ----------------------------------------------------------- specification
NoCall == [op |-> "none", a |-> << >>, mem |-> NotCalled, pg |-> NotCalled,
           was |-> [mem |-> {}, pg |-> {}]]

InitForum ==
  /\ forumPosts = << >> /\ forumReplies = << >>
  /\ forumPostId = 1 /\ forumReplyId = 1
  /\ forum_posts = << >> /\ forum_replies = << >>
  /\ forum_posts_id_seq = 1 /\ forum_replies_id_seq = 1

\* both constructors seed the admin user
InitBoard ==
  /\ users = (AdminId :> MemAdmin) /\ userId = AdminId + 1
  /\ events = << >> /\ eventId = 1
  /\ eventRegistrations = << >> /\ eventRegistrationId = 1
  /\ contestResults = << >> /\ contestResultId = 1
  /\ pg_users = (AdminId :> PgAdmin) /\ users_id_seq = AdminId + 1
  /\ pg_events = << >> /\ events_id_seq = 1
  /\ event_registrations = << >> /\ event_registrations_id_seq = 1
  /\ contest_results = << >> /\ contest_results_id_seq = 1
  /\ resources = << >> /\ resourceId = 1
  /\ pg_resources = << >> /\ resources_id_seq = 1

Requests == 1..MaxRequests
Anonymous == 0
IdleReq == [route |-> "none", pc |-> "idle", user |-> Anonymous, id |-> << >>,
            path |-> << >>, body |-> << >>, found |-> FALSE, read |-> << >>,
            held |-> FALSE, status |-> 0]
InitReq == req = [h \in Requests |-> IdleReq]

Txns == 1..MaxTxns
IdleTx == [pc |-> "idle", postId |-> 0, replyId |-> 0, sel |-> {}, writes |-> << >>]
InitTx == tx = [t \in Txns |-> IdleTx]

\* storage = process.env.DATABASE_URL ? new PostgreSQLStorage() : new MemStorage()
Init ==
  /\ backend \in {"mem", "pg"}
  /\ InitBoard /\ InitForum /\ InitTx /\ InitReq
  /\ last = NoCall

ForumCalls ==
  \/ createForumPost(AdminId)
  \/ \E id \in PostIds : deleteForumPost(id)
  \/ \E pid \in PostIds : createForumReply(pid, AdminId)
  \/ \E id \in ReplyIds : upvoteForumReply(id)
  \/ \E id \in ReplyIds, d \in ReplyData : updateForumReply(id, d)
  \/ \E id \in ReplyIds : deleteForumReply(id)
  \/ \E pid \in PostIds, rid \in ReplyIds : markAsBestAnswer(pid, rid)

Next == ForumCalls

Spec == Init /\ [][Next]_vars

\* the creates of every entity type, and the deletes of results and replies
IdCalls ==
  \/ createUser(Newcomer)
  \/ createEvent(AdminId)
  \/ createEventRegistration(PlaceholderEventId, AdminId)
  \/ createContestResult(PlaceholderEventId, AdminId, 50)
  \/ \E id \in ResultIds : deleteContestResult(id)
  \/ createForumPost(AdminId)
  \/ createForumReply(1, AdminId)
  \/ \E id \in ReplyIds : deleteForumReply(id)
  \/ createResource(AdminId)

SpecIds == Init /\ [][IdCalls]_vars

\* the calls on users, events, contest results and the leaderboard
BoardCalls ==
  \/ createUser(Newcomer)
  \/ createEvent(AdminId)
  \/ \E id \in EventIds : deleteEvent(id)
  \/ \E eid \in EventIds, uid \in UserIds, s \in Scores : createContestResult(eid, uid, s)
  \/ \E id \in ResultIds : deleteContestResult(id)
  \/ \E uid \in UserIds, data \in LeaderboardData : updateLeaderboardEntry(uid, data)
  \/ getLeaderboard

SpecBoard == Init /\ [][BoardCalls]_vars

\* The two implementations given the same calls from the same (empty) contents;
\* the comparison stops at the first call on which they differ.
SameResult == last.mem = last.pg
SameContents == memAll = pgAll

InitEquiv == backend = "both" /\ InitBoard /\ InitForum /\ InitTx /\ InitReq /\ last = NoCall
NextEquiv == SameResult /\ SameContents /\ ForumCalls
SpecEquiv == InitEquiv /\ [][NextEquiv]_vars

\* ------------------------- PostgreSQLStorage.markAsBestAnswer, concurrently
\* Each call takes a client from the pool and runs BEGIN; UPDATE (reset);
\* UPDATE (mark); COMMIT on it, or ROLLBACK when the second UPDATE matches no
\* row.  No isolation level is set, so the transactions run at PostgreSQL's
\* default, READ COMMITTED: a statement selects its rows from what is committed
\* when it starts (and the transaction's own writes), waits for the row lock of
\* a row another transaction has updated, and then re-evaluates its WHERE
\* clause on the committed row before it writes.
InProgress(t) == tx[t].pc \notin {"idle", "committed", "rolledback"}

\* rows locked by the uncommitted writes of the other transactions
LockedByOthers(t) ==
  UNION {DOMAIN tx[u].writes : u \in {x \in Txns \ {t} : InProgress(x)}}

\* what transaction t reads: the committed rows under its own writes
TxView(t) ==
  [k \in DOMAIN forum_replies |->
     IF k \in DOMAIN tx[t].writes
       THEN [forum_replies[k] EXCEPT !.isBestAnswer = tx[t].writes[k]]
       ELSE forum_replies[k]]

TxWrite(t, S, b) ==
  [k \in DOMAIN tx[t].writes \cup S |-> IF k \in S THEN b ELSE tx[t].writes[k]]

\* the rows of the reset's selection that still match once their locks are free
TxResetRecheck(t) ==
  {k \in tx[t].sel : k \in BestOf(TxView(t), tx[t].postId)}

\* pool.connect(); BEGIN
TxBegin(t, pid, rid) ==
  /\ tx[t].pc = "idle"
  /\ tx' = [tx EXCEPT ![t] = [IdleTx EXCEPT !.pc = "begun", !.postId = pid,
                                          !.replyId = rid]]
  /\ UNCHANGED <<backend, memAll, pgAll, last, req>>

\* UPDATE forum_replies SET is_best_answer = FALSE WHERE post_id = $1 AND
\* is_best_answer = TRUE: the statement starts and selects its rows
TxResetSelect(t) ==
  /\ tx[t].pc = "begun"
  /\ tx' = [tx EXCEPT ![t].pc = "reset",
                      ![t].sel = BestOf(TxView(t), tx[t].postId)]
  /\ UNCHANGED <<backend, memAll, pgAll, last, req>>

\* ... and writes them, once no other transaction holds a lock on them
TxResetWrite(t) ==
  /\ tx[t].pc = "reset"
  /\ tx[t].sel \cap LockedByOthers(t) = {}
  /\ tx' = [tx EXCEPT ![t].pc = "resetDone", ![t].sel = {},
                      ![t].writes = TxWrite(t, TxResetRecheck(t), FALSE)]
  /\ UNCHANGED <<backend, memAll, pgAll, last, req>>

\* UPDATE forum_replies SET is_best_answer = TRUE WHERE id = $1 AND post_id = $2
\* RETURNING *: the statement starts and selects its row
TxMarkSelect(t) ==
  /\ tx[t].pc = "resetDone"
  /\ tx' = [tx EXCEPT ![t].pc = "mark",
                      ![t].sel = IF PgMarkHits(TxView(t), tx[t].postId, tx[t].replyId)
                                   THEN {tx[t].replyId} ELSE {}]
  /\ UNCHANGED <<backend, memAll, pgAll, last, req>>

\* ... and writes it; with no row returned the call throws and the catch block
\* runs ROLLBACK
TxMarkWrite(t) ==
  /\ tx[t].pc = "mark"
  /\ tx[t].sel \cap LockedByOthers(t) = {}
  /\ tx' = IF tx[t].sel = {}
             THEN [tx EXCEPT ![t].pc = "rolledback", ![t].writes = << >>]
             ELSE [tx EXCEPT ![t].pc = "markDone", ![t].sel = {},
                             ![t].writes = TxWrite(t, tx[t].sel, TRUE)]
  /\ UNCHANGED <<backend, memAll, pgAll, last, req>>

\* COMMIT: the writes become the committed rows and the locks are released
TxCommit(t) ==
  /\ tx[t].pc = "markDone"
  /\ forum_replies' = TxView(t)
  /\ tx' = [tx EXCEPT ![t].pc = "committed", ![t].writes = << >>]
  /\ UNCHANGED <<backend, memAll, pgBoard, forum_posts, forum_posts_id_seq,
                 forum_replies_id_seq, last, req>>

\* finally: client.release()
TxRelease(t) ==
  /\ tx[t].pc \in {"committed", "rolledback"}
  /\ tx' = [tx EXCEPT ![t] = IdleTx]
  /\ UNCHANGED <<backend, memAll, pgAll, last, req>>

\* a forum of two posts whose replies were created and marked one call at a
\* time: every reply on a post, at most one best answer per post
PgForumOf(postOf, best) ==
  /\ forum_posts = [p \in PostIds |-> PgNewForumPost(p, AdminId)]
  /\ forum_posts_id_seq = MaxPosts + 1
  /\ forum_replies =
       [k \in ReplyIds |->
          [PgNewForumReply(k, postOf[k], AdminId) EXCEPT !.isBestAnswer = k \in best]]
  /\ forum_replies_id_seq = MaxReplies + 1

InitTxn ==
  /\ backend = "pg"
  /\ InitBoard /\ InitTx /\ InitReq /\ last = NoCall
  /\ forumPosts = << >> /\ forumReplies = << >>
  /\ forumPostId = 1 /\ forumReplyId = 1
  /\ \E postOf \in [ReplyIds -> PostIds], best \in SUBSET ReplyIds :
       /\ \A p \in PostIds : Cardinality({k \in best : postOf[k] = p}) <= 1
       /\ PgForumOf(postOf, best)

NextTxn ==
  \/ \E t \in Txns, pid \in PostIds, rid \in ReplyIds : TxBegin(t, pid, rid)
  \/ \E t \in Txns : TxResetSelect(t)
  \/ \E t \in Txns : TxResetWrite(t)
  \/ \E t \in Txns : TxMarkSelect(t)
  \/ \E t \in Txns : TxMarkWrite(t)
  \/ \E t \in Txns : TxCommit(t)
  \/ \E t \in Txns : TxRelease(t)

SpecTxn == InitTxn /\ [][NextTxn]_vars

\* ------------------------------------------------------------ HTTP handlers
\* A handler runs from one await to the next without interruption; the other
\* requests and calls run between its awaits.  A step below is the code from
\* one await up to and including the storage call of the next.
StoredUsers == IF backend = "mem" THEN users ELSE pg_users
StoredEvents == IF backend = "mem" THEN events ELSE pg_events
StoredRegistrations == IF backend = "mem" THEN eventRegistrations ELSE event_registrations
StoredPosts == IF backend = "mem" THEN forumPosts ELSE forum_posts
StoredReplies == IF backend = "mem" THEN forumReplies ELSE forum_replies

\* req.user of a session: a stored user, or none when not authenticated
Sessions == {Anonymous} \cup DOMAIN StoredUsers
\* parseInt(req.params.id): <<n>>, or << >> for NaN
EventParams == {<< >>} \cup {<<e>> : e \in EventIds}
PostParams == {<< >>} \cup {<<p>> : p \in PostIds}
\* req.body against insertForumReplySchema: postId and userId (and content)
\* are required
ReplyBodies == {<< >>} \cup {[postId |-> p, userId |-> u] : p \in PostIds, u \in UserIds}
ValidReply(body) == {"postId", "userId"} \subseteq DOMAIN body

Received(h, route, u, id, body) ==
  [IdleReq EXCEPT !.route = route, !.user = u, !.id = id, !.body = body]
Respond(r, status) == [r EXCEPT !.pc = "done", !.status = status]
NoStorage == UNCHANGED <<backend, memAll, pgAll, last, tx>>

\* the user holds a registration for the event when the request arrives
Holds(regs, evts, u, id) ==
  /\ u # Anonymous /\ id # << >>
  /\ id[1] \in DOMAIN evts
  /\ \E k \in DOMAIN regs : regs[k].eventId = id[1] /\ regs[k].userId = u

getEventRegistration(eid, uid) ==
  IF backend = "mem" THEN MemRegistered(eventRegistrations, eid, uid)
  ELSE PgRegistered(event_registrations, eid, uid)

\* POST /api/events/:id/register, up to storage.getEvent
RegisterReceive(h, u, id) ==
  /\ req[h].pc = "idle"
  /\ LET r == [Received(h, "register", u, id, << >>) EXCEPT
                !.held = Holds(StoredRegistrations, StoredEvents, u, id)]
     IN req' = [req EXCEPT ![h] =
          IF u = Anonymous THEN Respond(r, 401)
          ELSE IF id = << >> THEN Respond(r, 400)
          ELSE [r EXCEPT !.pc = "gotEvent", !.found = id[1] \in DOMAIN StoredEvents]]
  /\ NoStorage

\* ... then up to storage.getEventRegistration
RegisterCheck(h) ==
  /\ req[h].route = "register" /\ req[h].pc = "gotEvent"
  /\ req' = [req EXCEPT ![h] =
       IF ~req[h].found THEN Respond(req[h], 404)
       ELSE [req[h] EXCEPT !.pc = "gotRegistration",
                           !.found = getEventRegistration(req[h].id[1], req[h].user)]]
  /\ NoStorage

\* ... then the rejection, or storage.createEventRegistration and the response
RegisterCreate(h) ==
  /\ req[h].route = "register" /\ req[h].pc = "gotRegistration"
  /\ LET eid == req[h].id[1]
         uid == req[h].user
     IN IF req[h].found
          THEN /\ req' = [req EXCEPT ![h] = Respond(req[h], 400)]
               /\ UNCHANGED <<memAll, pgAll>>
          ELSE /\ backend = "mem" => eventRegistrationId <= MaxRegistrations
               /\ backend = "pg" => event_registrations_id_seq <= MaxRegistrations
               /\ Dispatch(Mem_createEventRegistration(eid, uid),
                           Pg_createEventRegistration(eid, uid))
               /\ req' = [req EXCEPT ![h] =
                    IF backend = "pg" /\ ~PgRegistrationOk(event_registrations,
                                                           pg_events, pg_users, eid, uid)
                      THEN Respond(req[h], 500)
                      ELSE Respond(req[h], 201)]
  /\ UNCHANGED <<backend, last, tx>>

\* POST /api/forum/:id/reply, up to storage.getForumPost
ReplyReceive(h, u, id, body) ==
  /\ req[h].pc = "idle"
  /\ LET r == Received(h, "reply", u, id, body)
     IN req' = [req EXCEPT ![h] =
          IF u = Anonymous THEN Respond(r, 401)
          ELSE IF id = << >> THEN Respond(r, 400)
          ELSE [r EXCEPT !.pc = "gotPost", !.found = id[1] \in DOMAIN StoredPosts]]
  /\ NoStorage

\* ... then the parse of the body, storage.createForumReply and the response
ReplyCreate(h) ==
  /\ req[h].route = "reply" /\ req[h].pc = "gotPost"
  /\ LET replyData == Merge(req[h].body, [postId |-> req[h].id[1], userId |-> req[h].user])
     IN IF ~req[h].found \/ ~ValidReply(req[h].body)
          THEN /\ req' = [req EXCEPT ![h] =
                    Respond(req[h], IF ~req[h].found THEN 404 ELSE 400)]
               /\ UNCHANGED <<memAll, pgAll>>
          ELSE /\ backend = "mem" => forumReplyId <= MaxReplies
               /\ backend = "pg" => forum_replies_id_seq <= MaxReplies
               /\ Dispatch(Mem_createForumReply(replyData.postId, replyData.userId),
                           Pg_createForumReply(replyData.postId, replyData.userId))
               /\ req' = [req EXCEPT ![h] =
                    IF backend = "pg" /\ ~PgReplyKeysOk(forum_posts, pg_users,
                                                        replyData.postId, replyData.userId)
                      THEN Respond(req[h], 500)
                      ELSE Respond(req[h], 201)]
  /\ UNCHANGED <<backend, last, tx>>

\* (a check that lets every user through)
MayMarkAnyone(post, user) == TRUE

\* post.userId !== req.user.id && req.user.role !== "admin" is the refusal
MayMark(post, user) == post.userId = user.id \/ user.role = "admin"

ReplyParams == {<< >>} \cup {<<r>> : r \in ReplyIds}

\* POST /api/forum/reply/:id/best-answer, up to storage.getForumReply
BestReceive(h, u, id) ==
  /\ req[h].pc = "idle"
  /\ LET r == Received(h, "best-answer", u, id, << >>)
     IN req' = [req EXCEPT ![h] =
          IF u = Anonymous THEN Respond(r, 401)
          ELSE IF id = << >> THEN Respond(r, 400)
          ELSE IF id[1] \in DOMAIN StoredReplies
            THEN [r EXCEPT !.pc = "gotReply", !.found = TRUE,
                           !.read = [reply |-> StoredReplies[id[1]]]]
            ELSE [r EXCEPT !.pc = "gotReply"]]
  /\ NoStorage

\* ... then up to storage.getForumPost(reply.postId)
BestGetPost(h) ==
  /\ req[h].route = "best-answer" /\ req[h].pc = "gotReply"
  /\ LET pid == req[h].read.reply.postId
     IN req' = [req EXCEPT ![h] =
          IF ~req[h].found THEN Respond(req[h], 404)
          ELSE IF pid \in DOMAIN StoredPosts
            THEN [req[h] EXCEPT !.pc = "gotPost",
                                !.read = [reply |-> req[h].read.reply,
                                          post |-> StoredPosts[pid]]]
            ELSE [req[h] EXCEPT !.pc = "gotPost", !.found = FALSE]]
  /\ NoStorage

\* ... then the check of the requester, storage.markAsBestAnswer and the
\* response; req.user is the stored user of the session
BestMark(h) ==
  /\ req[h].route = "best-answer" /\ req[h].pc = "gotPost"
  /\ LET pid == req[h].read.reply.postId
         rid == req[h].id[1]
     IN IF ~req[h].found \/ ~MayMark(req[h].read.post, StoredUsers[req[h].user])
          THEN /\ req' = [req EXCEPT ![h] =
                    Respond(req[h], IF ~req[h].found THEN 404 ELSE 403)]
               /\ UNCHANGED <<memAll, pgAll>>
          ELSE /\ Dispatch(Mem_markAsBestAnswer(pid, rid), Pg_markAsBestAnswer(pid, rid))
               /\ req' = [req EXCEPT ![h] =
                    IF (IF backend = "mem" THEN MemMarkResult(forumReplies, pid, rid)
                        ELSE PgMarkResult(forum_replies, pid, rid)) = Threw
                      THEN Respond(req[h], 500)
                      ELSE Respond(req[h], 200)]
  /\ UNCHANGED <<backend, last, tx>>

\* the best-answer API: users post and reply, replies are marked
NextBest ==
  \/ createUser(Newcomer)
  \/ \E uid \in UserIds : createForumPost(uid)
  \/ \E pid \in PostIds : createForumReply(pid, AdminId)
  \/ \E h \in Requests, u \in Sessions, id \in ReplyParams : BestReceive(h, u, id)
  \/ \E h \in Requests : BestGetPost(h)
  \/ \E h \in Requests : BestMark(h)

SpecBest == Init /\ [][NextBest]_vars

\* (an upvote handler that does not look at what getForumReply returned)
UpvoteUnchecked(h) ==
  /\ req[h].route = "upvote" /\ req[h].pc = "gotReply"
  /\ Dispatch(Mem_upvoteForumReply(req[h].id[1]), Pg_upvoteForumReply(req[h].id[1]))
  /\ req' = [req EXCEPT ![h] = Respond(req[h], 200)]
  /\ UNCHANGED <<backend, last, tx>>

\* POST /api/forum/reply/:id/upvote, up to storage.getForumReply
UpvoteReceive(h, u, id) ==
  /\ req[h].pc = "idle"
  /\ LET r == Received(h, "upvote", u, id, << >>)
     IN req' = [req EXCEPT ![h] =
          IF u = Anonymous THEN Respond(r, 401)
          ELSE IF id = << >> THEN Respond(r, 400)
          ELSE [r EXCEPT !.pc = "gotReply", !.found = id[1] \in DOMAIN StoredReplies]]
  /\ NoStorage

\* ... then storage.upvoteForumReply and the response
UpvoteApply(h) ==
  /\ req[h].route = "upvote" /\ req[h].pc = "gotReply"
  /\ LET rid == req[h].id[1]
     IN IF ~req[h].found
          THEN /\ req' = [req EXCEPT ![h] = Respond(req[h], 404)]
               /\ UNCHANGED <<memAll, pgAll>>
          ELSE /\ Dispatch(Mem_upvoteForumReply(rid), Pg_upvoteForumReply(rid))
               /\ req' = [req EXCEPT ![h] =
                    IF rid \in DOMAIN StoredReplies
                      THEN Respond(req[h], 200) ELSE Respond(req[h], 500)]
  /\ UNCHANGED <<backend, last, tx>>

\* the upvote API: replies come to exist, users upvote them
NextUpvote ==
  \/ createUser(Newcomer)
  \/ createForumPost(AdminId)
  \/ \E pid \in PostIds : createForumReply(pid, AdminId)
  \/ \E h \in Requests, u \in Sessions, id \in ReplyParams : UpvoteReceive(h, u, id)
  \/ \E h \in Requests : UpvoteApply(h)

SpecUpvote == Init /\ [][NextUpvote]_vars

\* req.body against insertEventSchema: createdBy (and title, date ...) is
\* required
EventBodies == {<< >>} \cup {[createdBy |-> u] : u \in UserIds}
ValidEvent(body) == "createdBy" \in DOMAIN body

\* POST /api/events: storage.createEvent is its only await
EventPost(h, u, body) ==
  /\ req[h].pc = "idle"
  /\ LET r == Received(h, "events", u, << >>, body)
         eventData == Merge(body, [createdBy |-> u])
     IN IF u = Anonymous \/ ~ValidEvent(body)
          THEN /\ req' = [req EXCEPT ![h] =
                    Respond(r, IF u = Anonymous THEN 401 ELSE 400)]
               /\ UNCHANGED <<memAll, pgAll>>
          ELSE /\ backend = "mem" => eventId <= MaxEvents
               /\ backend = "pg" => events_id_seq <= MaxEvents
               /\ Dispatch(Mem_createEvent(eventData.createdBy),
                           Pg_createEvent(eventData.createdBy))
               /\ req' = [req EXCEPT ![h] =
                    IF backend = "pg" /\ eventData.createdBy \notin DOMAIN pg_users
                      THEN Respond(r, 500) ELSE Respond(r, 201)]
  /\ UNCHANGED <<backend, last, tx>>

\* req.body against insertForumPostSchema and insertResourceSchema: userId
\* (and title ...) is required
OwnedBodies == {<< >>} \cup {[userId |-> u] : u \in UserIds}
ValidOwned(body) == "userId" \in DOMAIN body

\* (the parsed body passed on as it came)
AsSent(body, u) == body

\* { ...postData, userId: req.user.id }
OwnedBy(body, u) == Merge(body, [userId |-> u])

\* POST /api/forum: storage.createForumPost is its only await
ForumPost(h, u, body) ==
  /\ req[h].pc = "idle"
  /\ LET r == Received(h, "forum", u, << >>, body)
     IN IF u = Anonymous \/ ~ValidOwned(body)
          THEN /\ req' = [req EXCEPT ![h] =
                    Respond(r, IF u = Anonymous THEN 401 ELSE 400)]
               /\ UNCHANGED <<memAll, pgAll>>
          ELSE /\ backend = "mem" => forumPostId <= MaxPosts
               /\ backend = "pg" => forum_posts_id_seq <= MaxPosts
               /\ Dispatch(Mem_createForumPost(OwnedBy(body, u).userId),
                           Pg_createForumPost(OwnedBy(body, u).userId))
               /\ req' = [req EXCEPT ![h] =
                    IF backend = "pg" /\ OwnedBy(body, u).userId \notin DOMAIN pg_users
                      THEN Respond(r, 500) ELSE Respond(r, 201)]
  /\ UNCHANGED <<backend, last, tx>>

\* POST /api/resources: storage.createResource is its only await
ResourcePost(h, u, body) ==
  /\ req[h].pc = "idle"
  /\ LET r == Received(h, "resources", u, << >>, body)
     IN IF u = Anonymous \/ ~ValidOwned(body)
          THEN /\ req' = [req EXCEPT ![h] =
                    Respond(r, IF u = Anonymous THEN 401 ELSE 400)]
               /\ UNCHANGED <<memAll, pgAll>>
          ELSE /\ backend = "mem" => resourceId <= MaxResources
               /\ backend = "pg" => resources_id_seq <= MaxResources
               /\ Dispatch(Mem_createResource(OwnedBy(body, u).userId),
                           Pg_createResource(OwnedBy(body, u).userId))
               /\ req' = [req EXCEPT ![h] =
                    IF backend = "pg" /\ OwnedBy(body, u).userId \notin DOMAIN pg_users
                      THEN Respond(r, 500) ELSE Respond(r, 201)]
  /\ UNCHANGED <<backend, last, tx>>

\* req.body against insertContestResultSchema: eventId, userId and score are
\* required
ResultBodies ==
  {<< >>} \cup {[eventId |-> e, userId |-> u, score |-> s] :
                 e \in EventIds, u \in UserIds, s \in {50}}
ValidResult(body) == {"eventId", "userId", "score"} \subseteq DOMAIN body

\* !req.isAuthenticated() || req.user.role !== "admin"
NotAdmin(u) == u = Anonymous \/ StoredUsers[u].role # "admin"

\* POST /api/events/:id/results, up to storage.getEvent
ResultsReceive(h, u, id, body) ==
  /\ req[h].pc = "idle"
  /\ LET r == Received(h, "results", u, id, body)
     IN req' = [req EXCEPT ![h] =
          IF NotAdmin(u) THEN Respond(r, 401)
          ELSE IF id = << >> THEN Respond(r, 400)
          ELSE [r EXCEPT !.pc = "gotEvent", !.found = id[1] \in DOMAIN StoredEvents]]
  /\ NoStorage

\* ... then the parse of the body, storage.createContestResult and the response
ResultsCreate(h) ==
  /\ req[h].route = "results" /\ req[h].pc = "gotEvent"
  /\ LET resultData == Merge(req[h].body, [eventId |-> req[h].id[1]])
     IN IF ~req[h].found \/ ~ValidResult(req[h].body)
          THEN /\ req' = [req EXCEPT ![h] =
                    Respond(req[h], IF ~req[h].found THEN 404 ELSE 400)]
               /\ UNCHANGED <<memAll, pgAll>>
          ELSE /\ backend = "mem" => contestResultId <= MaxResults
               /\ backend = "pg" => contest_results_id_seq <= MaxResults
               /\ Dispatch(Mem_createContestResult(resultData.eventId, resultData.userId,
                                                   resultData.score),
                           Pg_createContestResult(resultData.eventId, resultData.userId,
                                                  resultData.score))
               /\ req' = [req EXCEPT ![h] =
                    IF backend = "pg" /\ ~PgResultKeysOk(pg_events, pg_users,
                                                         resultData.eventId, resultData.userId)
                      THEN Respond(req[h], 500)
                      ELSE Respond(req[h], 201)]
  /\ UNCHANGED <<backend, last, tx>>

\* GET /api/users: storage.getAllUsers is its only await; the response is
\* every stored user without the password
UsersGet(h, u) ==
  /\ req[h].pc = "idle"
  /\ req' = [req EXCEPT ![h] =
       [Respond(Received(h, "GET /api/users", u, << >>, << >>), 200) EXCEPT
          !.read = [users |-> DOMAIN StoredUsers]]]
  /\ NoStorage

\* the API of users, events and contest results: users come to exist, events
\* and results are posted, the users are listed
NextAdmin ==
  \/ createUser(Newcomer)
  \/ \E h \in Requests, u \in Sessions : UsersGet(h, u)
  \/ \E h \in Requests, u \in Sessions, body \in EventBodies : EventPost(h, u, body)
  \/ \E h \in Requests, u \in Sessions, id \in EventParams, body \in ResultBodies :
       ResultsReceive(h, u, id, body)
  \/ \E h \in Requests : ResultsCreate(h)

SpecAdmin == Init /\ [][NextAdmin]_vars

\* GET /api/events, GET /api/events/:id and GET /api/leaderboard: each has one
\* storage call.  The first two await it outside any try block; the third
\* inside one.
GetRoutes == {"GET events", "GET event", "GET leaderboard"}
Guarded(route) == route = "GET leaderboard"

\* the handler up to its storage call
GetReceive(h, route, id) ==
  /\ req[h].pc = "idle"
  /\ route = "GET event" \/ id = << >>
  /\ LET r == Received(h, route, Anonymous, id, << >>)
     IN req' = [req EXCEPT ![h] =
          IF route = "GET event" /\ id = << >> THEN Respond(r, 400)
          ELSE [r EXCEPT !.pc = "awaiting",
                         !.found = route = "GET event" => id[1] \in DOMAIN StoredEvents]]
  /\ NoStorage

\* the storage call's promise is fulfilled: the handler responds
GetFulfilled(h) ==
  /\ req[h].route \in GetRoutes /\ req[h].pc = "awaiting"
  /\ req' = [req EXCEPT ![h] = Respond(req[h], IF req[h].found THEN 200 ELSE 404)]
  /\ NoStorage

\* the storage call's promise is rejected (a query of PostgreSQLStorage
\* fails; MemStorage's reads do not throw): the catch block responds 500.
\* Where there is no try block the async handler's own promise is rejected,
\* which Express 4 ignores (no response is sent) and Express 5 hands to the
\* error handler (500); the Express version is not in the source.
GetRejected(h, handled) ==
  /\ backend = "pg"
  /\ req[h].route \in GetRoutes /\ req[h].pc = "awaiting"
  /\ req' = [req EXCEPT ![h] =
       IF Guarded(req[h].route) \/ handled
         THEN [Respond(req[h], 500) EXCEPT !.read = [failed |-> TRUE]]
         ELSE [req[h] EXCEPT !.pc = "unanswered", !.read = [failed |-> TRUE]]]
  /\ NoStorage

\* the read-only API while events are created
NextGet ==
  \/ createEvent(AdminId)
  \/ \E h \in Requests, route \in GetRoutes, id \in EventParams : GetReceive(h, route, id)
  \/ \E h \in Requests : GetFulfilled(h)
  \/ \E h \in Requests, handled \in BOOLEAN : GetRejected(h, handled)

\* Node runs every handler whose awaited promise has settled
SpecGet == Init /\ [][NextGet]_vars /\ WF_vars(NextGet)

\* The GET routes in the order registerRoutes registers them; Express gives
\* a request to the first route whose pattern matches its path.
GetRouteTable ==
  << <<"api", "events">>, <<"api", "events", ":id">>, <<"api", "leaderboard">>,
     <<"api", "forum">>, <<"api", "forum", ":id">>, <<"api", "resources">>,
     <<"api", "resources", ":id">>, <<"api", "users">>,
     <<"api", "forum", "replies">>, <<"api", "users", ":id">> >>

\* "GET /api/forum/:id" for <<"api", "forum", ":id">>
RECURSIVE RouteName(_)
RouteName(pattern) ==
  IF pattern = << >> THEN "GET " ELSE RouteName(SubSeq(pattern, 1, Len(pattern) - 1))
                                        \o "/" \o pattern[Len(pattern)]

Matches(pattern, path) ==
  /\ Len(pattern) = Len(path)
  /\ \A i \in DOMAIN pattern : pattern[i] = ":id" \/ pattern[i] = path[i]

\* the route of the handler that gets the request ("none": 404)
Dispatched(path) ==
  LET hits == {i \in DOMAIN GetRouteTable : Matches(GetRouteTable[i], path)}
  IN  IF hits = {} THEN "none"
      ELSE RouteName(GetRouteTable[CHOOSE i \in hits : \A j \in hits : i <= j])

\* parseInt of a path segment: <<n>>, or << >> for NaN
ParseInt(s) ==
  LET ns == {n \in PostIds : ToString(n) = s}
  IN  IF ns = {} THEN << >> ELSE <<CHOOSE n \in ns : TRUE>>

ForumPaths ==
  {<<"api", "forum", ToString(p)>> : p \in PostIds} \cup {<<"api", "forum", "replies">>}

\* GET /api/forum/replies: the replies of every stored post
AllReplies == UNION {RepliesOf(StoredReplies, p) : p \in DOMAIN StoredPosts}

\* a GET request for a forum path: the router, then the handler up to its
\* first storage call
ForumGetReceive(h, path) ==
  /\ req[h].pc = "idle"
  /\ LET route == Dispatched(path)
         r == [Received(h, route, Anonymous, << >>, << >>) EXCEPT !.path = path]
     IN req' = [req EXCEPT ![h] =
          IF route = "GET /api/forum/replies"
            THEN [Respond(r, 200) EXCEPT !.read = [replies |-> AllReplies]]
          ELSE IF ParseInt(path[3]) = << >> THEN Respond(r, 400)
          ELSE [r EXCEPT !.pc = "gotPost", !.id = ParseInt(path[3]),
                         !.found = ParseInt(path[3])[1] \in DOMAIN StoredPosts]]
  /\ NoStorage

\* GET /api/forum/:id: ... then storage.incrementForumPostViews
ForumGetViews(h) ==
  /\ req[h].route = "GET /api/forum/:id" /\ req[h].pc = "gotPost"
  /\ IF ~req[h].found
       THEN /\ req' = [req EXCEPT ![h] = Respond(req[h], 404)]
            /\ UNCHANGED <<memAll, pgAll>>
       ELSE /\ Dispatch(Mem_incrementForumPostViews(req[h].id[1]),
                        Pg_incrementForumPostViews(req[h].id[1]))
            /\ req' = [req EXCEPT ![h].pc = "viewed"]
  /\ UNCHANGED <<backend, last, tx>>

\* ... then storage.getForumReplies and the response
ForumGetReplies(h) ==
  /\ req[h].route = "GET /api/forum/:id" /\ req[h].pc = "viewed"
  /\ req' = [req EXCEPT ![h] =
       [Respond(req[h], 200) EXCEPT
          !.read = [replies |-> RepliesOf(StoredReplies, req[h].id[1])]]]
  /\ NoStorage

\* the forum's GET API while posts and replies are created
NextForumGet ==
  \/ createForumPost(AdminId)
  \/ \E pid \in PostIds : createForumReply(pid, AdminId)
  \/ \E h \in Requests, path \in ForumPaths : ForumGetReceive(h, path)
  \/ \E h \in Requests : ForumGetViews(h)
  \/ \E h \in Requests : ForumGetReplies(h)

SpecForumGet == Init /\ [][NextForumGet]_vars

\* the same while posts are updated through the storage interface
NextViews ==
  \/ NextForumGet
  \/ \E id \in PostIds, d \in PostData : updateForumPost(id, d)

SpecViews == Init /\ [][NextViews]_vars

\* the events API: users and events come to exist, users register
NextEvents ==
  \/ createUser(Newcomer)
  \/ \E uid \in UserIds : createEvent(uid)
  \/ \E h \in Requests, u \in Sessions, id \in EventParams : RegisterReceive(h, u, id)
  \/ \E h \in Requests : RegisterCheck(h)
  \/ \E h \in Requests : RegisterCreate(h)

SpecEvents == Init /\ [][NextEvents]_vars

\* the five POST handlers that look their target up first, for the admin's
\* session and the id 1, while event 1, post 1 and replies come to exist
NextLookup ==
  \/ createEvent(AdminId)
  \/ createForumPost(AdminId)
  \/ createForumReply(1, AdminId)
  \/ \E h \in Requests : RegisterReceive(h, AdminId, <<1>>)
  \/ \E h \in Requests : RegisterCheck(h)
  \/ \E h \in Requests : RegisterCreate(h)
  \/ \E h \in Requests : ReplyReceive(h, AdminId, <<1>>, [postId |-> 1, userId |-> AdminId])
  \/ \E h \in Requests : ReplyCreate(h)
  \/ \E h \in Requests : UpvoteReceive(h, AdminId, <<1>>)
  \/ \E h \in Requests : UpvoteApply(h)
  \/ \E h \in Requests : BestReceive(h, AdminId, <<1>>)
  \/ \E h \in Requests : BestGetPost(h)
  \/ \E h \in Requests : BestMark(h)
  \/ \E h \in Requests :
       ResultsReceive(h, AdminId, <<1>>, [eventId |-> 1, userId |-> AdminId, score |-> 50])
  \/ \E h \in Requests : ResultsCreate(h)

SpecLookup == Init /\ [][NextLookup]_vars

\* the creating routes open to every authenticated user, for event 1 and
\* post 1, with bodies that name any user as owner
NextOwned ==
  \/ createUser(Newcomer)
  \/ \E h \in Requests, u \in Sessions, body \in EventBodies : EventPost(h, u, body)
  \/ \E h \in Requests, u \in Sessions : RegisterReceive(h, u, <<1>>)
  \/ \E h \in Requests : RegisterCheck(h)
  \/ \E h \in Requests : RegisterCreate(h)
  \/ \E h \in Requests, u \in Sessions, body \in OwnedBodies : ForumPost(h, u, body)
  \/ \E h \in Requests, u \in Sessions, body \in ReplyBodies :
       ReplyReceive(h, u, <<1>>, body)
  \/ \E h \in Requests : ReplyCreate(h)
  \/ \E h \in Requests, u \in Sessions, body \in OwnedBodies : ResourcePost(h, u, body)

SpecOwned == Init /\ [][NextOwned]_vars

\* users are created from any input, and listed
NextUsers ==
  \/ \E insertUser \in UserInputs : createUser(insertUser)
  \/ \E h \in Requests, u \in Sessions : UsersGet(h, u)

SpecUsers == Init /\ [][NextUsers]_vars

\* Partial<ForumReply> objects that carry an id, and one that carries none
IdData == {[id |-> k] : k \in ReplyIds} \cup {<< >>}

\* replies are created, updated with such objects, and deleted
NextKeys ==
  \/ createForumPost(AdminId)
  \/ \E pid \in PostIds : createForumReply(pid, AdminId)
  \/ \E id \in ReplyIds, d \in IdData : updateForumReply(id, d)
  \/ \E id \in ReplyIds : deleteForumReply(id)

SpecKeys == Init /\ [][NextKeys]_vars

\* the forum API: posts are created and deleted while replies are posted
NextForum ==
  \/ createForumPost(AdminId)
  \/ \E id \in PostIds : deleteForumPost(id)
  \/ \E h \in Requests, u \in Sessions, id \in PostParams, body \in ReplyBodies :
       ReplyReceive(h, u, id, body)
  \/ \E h \in Requests : ReplyCreate(h)

SpecForum == Init /\ [][NextForum]_vars

\* ------------------------------------------------------------------ claims
OneBestPerPost(replies) ==
  \A p \in PostIds : Cardinality(BestOf(replies, p)) <= 1

\* C1: after any sequence of storage calls on forum replies, every post has at
\* most one reply with isBestAnswer = true.
C1_AtMostOneBestAnswer ==
  /\ OnMem => OneBestPerPost(forumReplies)
  /\ OnPg => OneBestPerPost(forum_replies)

\* markAsBestAnswer(pid, rid) has just succeeded on a reply of post pid and left
\* rid the only best answer of pid
OnlyBest(replies, pid, rid) ==
  /\ replies[rid].isBestAnswer
  /\ \A k \in RepliesOf(replies, pid) \ {rid} : ~replies[k].isBestAnswer

MarkedOwnReply(replies, ret) ==
  /\ last.op = "markAsBestAnswer"
  /\ ret[1] = "ok"
  /\ replies[last.a[2]].postId = last.a[1]

\* C2: when markAsBestAnswer(P, R) succeeds for a reply R of post P, R is a best
\* answer afterwards and no other reply of P is, whichever replies of P were
\* best answers before (so marking A and then B leaves A unmarked, B marked).
C2_MarkClearsOthers ==
  /\ OnMem /\ MarkedOwnReply(forumReplies, last.mem)
       => OnlyBest(forumReplies, last.a[1], last.a[2])
  /\ OnPg /\ MarkedOwnReply(forum_replies, last.pg)
       => OnlyBest(forum_replies, last.a[1], last.a[2])

\* reply B of a post was marked while another reply A of the post was its best
\* answer: A is still there and is no longer marked
MarkedOver(replies, ret, was) ==
  /\ MarkedOwnReply(replies, ret)
  /\ \E A \in was \ {last.a[2]} :
       /\ A \in RepliesOf(replies, last.a[1])
       /\ ~replies[A].isBestAnswer
  /\ replies[last.a[2]].isBestAnswer

C2_Witness ==
  \/ backend = "mem" /\ MarkedOver(forumReplies, last.mem, last.was.mem)
  \/ backend = "pg" /\ MarkedOver(forum_replies, last.pg, last.was.pg)

PostGone(posts, replies, id) ==
  id \notin DOMAIN posts /\ RepliesOf(replies, id) = {}

\* C3: with two PostgreSQL markAsBestAnswer transactions for replies of one
\* post interleaved in any order, no committed state has two best answers of
\* that post.
C3_CommittedOneBest == OneBestPerPost(forum_replies)

\* C4: after deleteForumPost(P) the store holds neither post P nor any reply
\* with postId = P.
C4_DeletePostCascades ==
  last.op = "deleteForumPost" =>
    /\ OnMem => PostGone(forumPosts, forumReplies, last.a[1])
    /\ OnPg => PostGone(forum_posts, forum_replies, last.a[1])

\* a post that had two or more replies was deleted
C4_Witness ==
  /\ last.op = "deleteForumPost"
  /\ \/ backend = "mem" /\ last.mem = Ret(TRUE) /\ Cardinality(last.was.mem) >= 2
     \/ backend = "pg" /\ last.pg = Ret(TRUE) /\ Cardinality(last.was.pg) >= 2

NoOrphans(posts, replies) == \A k \in DOMAIN replies : replies[k].postId \in DOMAIN posts

\* C5: in every reachable state every stored reply's postId is the id of an
\* existing post, also when POST /api/forum/:id/reply runs while the post is
\* deleted.
C5_NoOrphanedReply == NoOrphans(StoredPosts, StoredReplies)

\* a step of the handler of request h
StepOf(h) == req'[h] # req[h]

\* C6: a request to POST /api/events/E/register by a user who holds a
\* registration for the existing event E when it arrives changes no
\* registration in any of its steps and is answered with status 400.
C6_DuplicateRegistrationRejected ==
  [][\A h \in Requests :
       StepOf(h) /\ req'[h].route = "register" /\ req'[h].held =>
         /\ StoredRegistrations' = StoredRegistrations
         /\ req'[h].pc = "done" => req'[h].status = 400]_vars

\* a registered user's second request for the same event has been answered
C6_Witness ==
  \E h \in Requests :
    /\ req[h].route = "register" /\ req[h].held
    /\ req[h].pc = "done" /\ req[h].status = 400
    /\ Cardinality(DOMAIN StoredRegistrations) = 1

\* the results of user u, and the users that exist and have a result
ResultsOf(results, u) == {k \in DOMAIN results : results[k].userId = u}
ScoredUsers(results, usrs) == {u \in DOMAIN usrs : ResultsOf(results, u) # {}}

OneRowPerScoredUser(lb, results, usrs) ==
  /\ \A u \in ScoredUsers(results, usrs) :
       Cardinality({i \in DOMAIN lb : lb[i].id = u}) = 1
  /\ \A i \in DOMAIN lb :
       /\ lb[i].id \in ScoredUsers(results, usrs)
       /\ lb[i].score = SumScore(results, ResultsOf(results, lb[i].id))

\* C7: getLeaderboard returns exactly one row for each existing user that has a
\* contest result, none for any other user, and the row's score is the sum of
\* the scores of that user's contest results.
C7_ScoreIsSum ==
  last.op = "getLeaderboard" =>
    /\ OnMem => OneRowPerScoredUser(last.mem[2], contestResults, users)
    /\ OnPg => OneRowPerScoredUser(last.pg[2], contest_results, pg_users)

\* a leaderboard of two rows, one of them the sum of two results
TwoRowsOneSummed(lb) ==
  Len(lb) = 2 /\ \E i \in DOMAIN lb : lb[i].score \notin Scores

C7_Witness ==
  /\ last.op = "getLeaderboard"
  /\ \/ backend = "mem" /\ TwoRowsOneSummed(last.mem[2])
     \/ backend = "pg" /\ TwoRowsOneSummed(last.pg[2])

CountsDistinctEvents(lb, results) ==
  \A i \in DOMAIN lb :
    lb[i].contestCount =
      Cardinality({results[k].eventId : k \in ResultsOf(results, lb[i].id)})

\* C8: in every row of getLeaderboard, contestCount is the number of distinct
\* eventId values among the user's contest results.
C8_ContestCountDistinct ==
  last.op = "getLeaderboard" =>
    /\ OnMem => CountsDistinctEvents(last.mem[2], contestResults)
    /\ OnPg => CountsDistinctEvents(last.pg[2], contest_results)

NonIncreasing(lb) == \A i \in 1..(Len(lb) - 1) : lb[i].score >= lb[i + 1].score

\* C9: getLeaderboard returns its rows in non-increasing order of score.
C9_SortedByScore ==
  last.op = "getLeaderboard" =>
    /\ OnMem => NonIncreasing(last.mem[2])
    /\ OnPg => NonIncreasing(last.pg[2])

\* two rows with different scores were returned, the larger first, although
\* the user of the smaller one was scored first
C9_Witness ==
  /\ last.op = "getLeaderboard"
  /\ backend = "mem"
  /\ Len(last.mem[2]) = 2
  /\ last.mem[2][1].score > last.mem[2][2].score
  /\ \E k \in ResultsOf(contestResults, last.mem[2][2].id) :
       \A j \in ResultsOf(contestResults, last.mem[2][1].id) : k < j

\* C10: the two implementations, given the same calls, return the same results
\* and hold the same entities.
C10_BackendsAgree == SameResult /\ SameContents

\* the requester is the author of the post of reply rid, or an admin
Entitled(u, rid) ==
  /\ u \in DOMAIN StoredUsers /\ rid \in DOMAIN StoredReplies
  /\ StoredReplies[rid].postId \in DOMAIN StoredPosts
  /\ \/ StoredUsers[u].role = "admin"
     \/ StoredPosts[StoredReplies[rid].postId].userId = u

\* some reply's isBestAnswer is not what it was (FALSE for a new reply)
BestAnswerChanged ==
  \E k \in DOMAIN StoredReplies' :
    StoredReplies'[k].isBestAnswer #
      (IF k \in DOMAIN StoredReplies THEN StoredReplies[k].isBestAnswer ELSE FALSE)

\* the step in which the best-answer handler of request h checks the requester
BestDecides(h) ==
  /\ StepOf(h) /\ req[h].route = "best-answer" /\ req[h].pc = "gotPost"
  /\ req[h].found

\* C11: a reply's isBestAnswer changes only in the best-answer request of the
\* author of the reply's post or of an admin; the request of any other
\* authenticated user for an existing reply is answered 403 and changes no
\* reply's isBestAnswer.
C11_BestAnswerByAuthorOrAdmin ==
  [][/\ BestAnswerChanged =>
          (\E h \in Requests : BestDecides(h) /\ Entitled(req[h].user, req[h].id[1]))
      /\ \A h \in Requests :
           (BestDecides(h) /\ ~Entitled(req[h].user, req[h].id[1])) =>
             (req'[h].status = 403 /\ ~BestAnswerChanged)]_vars

\* one request was refused with 403, and the request of a post's author who
\* is no admin has marked the reply
C11_Witness ==
  \E h, g \in Requests :
    /\ req[h].route = "best-answer" /\ req[h].pc = "done" /\ req[h].status = 403
    /\ req[g].route = "best-answer" /\ req[g].pc = "done" /\ req[g].status = 200
    /\ StoredUsers[req[g].user].role # "admin"
    /\ StoredReplies[req[g].id[1]].isBestAnswer

\* the isBestAnswer value of every reply
BestFlags(replies) == [k \in DOMAIN replies |-> replies[k].isBestAnswer]

\* C12: after markAsBestAnswer(P, R), whether it returned or threw, a second
\* markAsBestAnswer(P, R) leaves the isBestAnswer value of every reply as the
\* first left it.
C12_MarkIdempotent ==
  last.op = "markAsBestAnswer" =>
    /\ OnMem => BestFlags(MemMarked(forumReplies, last.a[1], last.a[2]))
                  = BestFlags(forumReplies)
    /\ OnPg => BestFlags(PgMarked(forum_replies, last.a[1], last.a[2]))
                 = BestFlags(forum_replies)

\* markAsBestAnswer(P, R) has just moved the mark of post P to R
C12_Witness ==
  /\ last.op = "markAsBestAnswer"
  /\ \/ /\ backend = "mem" /\ last.mem[1] = "ok"
        /\ last.was.mem \ {last.a[2]} # {}
        /\ forumReplies[last.a[2]].isBestAnswer
     \/ /\ backend = "pg" /\ last.pg[1] = "ok"
        /\ last.was.pg \ {last.a[2]} # {}
        /\ forum_replies[last.a[2]].isBestAnswer

\* the upvote requests on reply rid that were answered 200
Upvoters(rid) ==
  {h \in Requests : /\ req[h].route = "upvote" /\ req[h].pc = "done"
                    /\ req[h].status = 200 /\ req[h].id = <<rid>>}

\* C13: a reply's upvotes is the number of upvote requests on it that
\* succeeded since it was created with 0, whoever sent them and however they
\* were interleaved.
C13_UpvotesCountRequests ==
  \A rid \in DOMAIN StoredReplies :
    StoredReplies[rid].upvotes = Cardinality(Upvoters(rid))

\* one user has upvoted a reply twice, and both count
C13_Witness ==
  \E rid \in DOMAIN StoredReplies :
    /\ Upvoters(rid) = Requests
    /\ \A h, g \in Requests : req[h].user = req[g].user
    /\ StoredReplies[rid].upvotes = MaxRequests

Role(u) == IF u = Anonymous THEN "none" ELSE StoredUsers[u].role
StoredResults == IF backend = "mem" THEN contestResults ELSE contest_results
Answered(route, status) ==
  {h \in Requests : req[h].route = route /\ req[h].pc = "done" /\ req[h].status = status}

\* C14: POST /api/events/:id/results answers 401 to a caller who is not
\* authenticated and 403 to an authenticated caller who is no admin, and the
\* contest results are those of the requests answered 201.
C14_ResultsAdminOnly ==
  /\ \A h \in Requests :
       req[h].route = "results" /\ req[h].pc = "done" /\ Role(req[h].user) # "admin" =>
         req[h].status = (IF req[h].user = Anonymous THEN 401 ELSE 403)
  /\ Cardinality(DOMAIN StoredResults) = Cardinality(Answered("results", 201))

\* C15: every stored event was created by the request of an admin.
C15_EventsByAdminOnly ==
  \A e \in DOMAIN StoredEvents : Role(StoredEvents[e].createdBy) = "admin"

\* C16: every request is eventually answered, and a request whose storage
\* call failed is answered with status 500; this holds for GET /api/events
\* and GET /api/events/:id as for the other handlers.
C16_EveryRequestAnswered ==
  \A h \in Requests :
    /\ (req[h].pc # "idle") ~> (req[h].pc = "done")
    /\ [](req[h].pc = "done" /\ req[h].read # << >> => req[h].status = 500)

\* C17: a GET request for /api/forum/replies is answered by the all-replies
\* handler, with status 200 and every stored reply; it is not answered by
\* the GET /api/forum/:id handler.
C17_AllRepliesRoute ==
  \A h \in Requests :
    req[h].path = <<"api", "forum", "replies">> /\ req[h].pc = "done" =>
      /\ req[h].route = "GET /api/forum/replies"
      /\ req[h].status = 200
      /\ req[h].read.replies = DOMAIN StoredReplies

\* C18: a GET /api/users request of a requester who is not authenticated or
\* is no admin is refused and its response carries no user list.
C18_UserListAdminOnly ==
  \A h \in Requests :
    req[h].route = "GET /api/users" /\ req[h].pc = "done"
      /\ Role(req[h].user) # "admin" =>
        req[h].status \in {401, 403} /\ req[h].read = << >>

\* the entities of one type and the counter of the type, in MemStorage
MemTypes ==
  << <<users, userId>>, <<events, eventId>>,
     <<eventRegistrations, eventRegistrationId>>,
     <<contestResults, contestResultId>>,
     <<forumPosts, forumPostId>>, <<forumReplies, forumReplyId>>,
     <<resources, resourceId>> >>

\* every stored id is below the counter
BelowCounter(type) == \A k \in DOMAIN type[1] : k < type[2]

\* the counter is never lowered, and an entity that appears has the counter's
\* value as id while the counter goes up by one
FreshId(type, type2) ==
  /\ type2[2] >= type[2]
  /\ \A k \in DOMAIN type2[1] \ DOMAIN type[1] : k = type[2] /\ type2[2] = type[2] + 1

\* C19: in MemStorage every create assigns the counter's value, which is
\* above every id assigned before for the type (stored or deleted since), and
\* advances the counter of that type only.
C19_IdsNeverReused ==
  /\ [](backend = "mem" => \A i \in DOMAIN MemTypes : BelowCounter(MemTypes[i]))
  /\ [][backend = "mem" =>
         /\ \A i \in DOMAIN MemTypes : FreshId(MemTypes[i], MemTypes'[i])
         /\ Cardinality({i \in DOMAIN MemTypes : MemTypes'[i][2] # MemTypes[i][2]}) <= 1]_vars

\* a reply was created after the reply with the largest id had been deleted
C19_Witness ==
  /\ backend = "mem" /\ last.op = "createForumReply"
  /\ forumReplyId = MaxReplies + 1
  /\ MaxReplies \in DOMAIN forumReplies
  /\ (MaxReplies - 1) \notin DOMAIN forumReplies

\* the handler of request h counts a view in this step
ViewCounted(h) == req[h].pc = "gotPost" /\ req[h].found /\ req'[h].pc = "viewed"

\* C20: the views of a stored post never decrease, whatever the operation
\* (updateForumPost included), and a GET /api/forum/:id on an existing post
\* adds exactly 1.
C20_ViewsNeverDecrease ==
  [][/\ \A p \in DOMAIN StoredPosts \cap DOMAIN StoredPosts' :
          StoredPosts'[p].views >= StoredPosts[p].views
      /\ \A h \in Requests :
           (ViewCounted(h) /\ req[h].id[1] \in DOMAIN StoredPosts) =>
             StoredPosts'[req[h].id[1]].views = StoredPosts[req[h].id[1]].views + 1]_vars

\* updateForumPost has just run on a post that had been viewed
C20_Witness ==
  /\ last.op = "updateForumPost" /\ last.a[1] \in DOMAIN StoredPosts
  /\ \E h \in Requests :
       req[h].pc = "done" /\ req[h].status = 200 /\ req[h].id = <<last.a[1]>>

\* markAsBestAnswer(pid, rid) has just been called for a reply that is not
\* stored, on a post that had a best answer
FailedMark(replies, was) ==
  /\ last.op = "markAsBestAnswer"
  /\ last.a[2] \notin DOMAIN replies
  /\ was # {}

\* C21: when markAsBestAnswer(P, R) fails because reply R does not exist, the
\* reply of P that was best answer before the call still is afterwards.
C21_FailedMarkKeepsBest ==
  /\ (OnMem /\ FailedMark(forumReplies, last.was.mem)) =>
       (last.mem = Threw /\ BestOf(forumReplies, last.a[1]) = last.was.mem)
  /\ (OnPg /\ FailedMark(forum_replies, last.was.pg)) =>
       (last.pg = Threw /\ BestOf(forum_replies, last.a[1]) = last.was.pg)

\* the failed call happened on either backend
C21_Witness ==
  \/ backend = "mem" /\ FailedMark(forumReplies, last.was.mem)
  \/ backend = "pg" /\ FailedMark(forum_replies, last.was.pg)

\* the leaderboard score of user u: the sum of the scores of u's results
TotalScore(results, u) == SumScore(results, ResultsOf(results, u))

\* results2 is results with exactly one row more, the synthetic result of
\* user uid with score s
OneResultMore(results, results2, uid, s) ==
  /\ Cardinality(DOMAIN results2 \ DOMAIN results) = 1
  /\ \A k \in DOMAIN results : k \in DOMAIN results2 /\ results2[k] = results[k]
  /\ \A k \in DOMAIN results2 \ DOMAIN results :
       results2[k] = [id |-> k, eventId |-> PlaceholderEventId, userId |-> uid,
                      position |-> Null, score |-> s]
  /\ \A u \in UserIds :
       TotalScore(results2, u) =
         TotalScore(results, u) + (IF u = uid THEN s ELSE 0)

\* C22: updateLeaderboardEntry(U, {score: s}) for an existing user U and a
\* non-zero s inserts exactly one contest result (U, placeholder event 1,
\* position null, score s): U's score grows by s and no other score changes;
\* with the score absent or 0 the contest results are unchanged.
C22_LeaderboardEntryAddsResult ==
  [][last'.op = "updateLeaderboardEntry" =>
       LET uid == last'.a[1]
           data == last'.a[2]
       IN  /\ (uid \in DOMAIN StoredUsers /\ ScoreGiven(data)) =>
                 OneResultMore(StoredResults, StoredResults', uid, data.score)
           /\ ~ScoreGiven(data) => StoredResults' = StoredResults]_vars

\* the call added a score to one the user already had
C22_Witness ==
  /\ last.op = "updateLeaderboardEntry"
  /\ last.a[1] \in DOMAIN StoredUsers /\ ScoreGiven(last.a[2])
  /\ TotalScore(StoredResults, last.a[1]) > last.a[2].score

\* no two registrations are of the same user for the same event
NoDuplicates(regs) ==
  \A j, k \in DOMAIN regs :
    (regs[j].eventId = regs[k].eventId /\ regs[j].userId = regs[k].userId) => j = k

\* C23: with the in-memory store no reachable state holds two registrations
\* with the same (eventId, userId), also when two register requests of one
\* user for one event interleave at their awaits.
C23_MemRegistrationsUnique == backend = "mem" => NoDuplicates(eventRegistrations)

\* two requests of one user for one event have both passed the check
C23_Witness ==
  /\ backend = "mem"
  /\ \E g, h \in Requests :
       /\ g # h /\ req[g].route = "register" /\ req[h].route = "register"
       /\ req[g].user = req[h].user /\ req[g].id = req[h].id
       /\ req[g].pc = "gotRegistration" /\ ~req[g].found
       /\ req[h].pc = "gotRegistration" /\ ~req[h].found

\* what the last call returned on the backend in use
Returned == IF backend = "mem" THEN last.mem ELSE last.pg

\* reply rid is stored and belongs to a post other than pid
OfOtherPost(replies, pid, rid) == rid \in DOMAIN replies /\ replies[rid].postId # pid

\* C24: markAsBestAnswer(P, R) with R a stored reply of a post other than P
\* fails with an error and changes no reply's isBestAnswer, on either backend.
C24_MarkOfOtherPostFails ==
  [][(last'.op = "markAsBestAnswer"
        /\ OfOtherPost(StoredReplies, last'.a[1], last'.a[2])) =>
       (Returned' = Threw /\ BestFlags(StoredReplies') = BestFlags(StoredReplies))]_vars

\* the call was made with a reply of another post
C24_Witness ==
  /\ last.op = "markAsBestAnswer"
  /\ OfOtherPost(StoredReplies, last.a[1], last.a[2])

\* the collection in which a route's handler looks its target up first
Target(route) ==
  IF route \in {"register", "results"} THEN StoredEvents
  ELSE IF route = "reply" THEN StoredPosts
  ELSE StoredReplies

\* the handler of request h has looked an entity up and not found it
LookupFailed(h) == req[h].pc \in {"gotEvent", "gotReply", "gotPost"} /\ ~req[h].found

StoredResources == IF backend = "mem" THEN resources ELSE pg_resources

\* the users named as owner by the entities that appear in this step
NewOwners ==
  {StoredEvents'[k].createdBy : k \in DOMAIN StoredEvents' \ DOMAIN StoredEvents}
    \cup {StoredRegistrations'[k].userId :
            k \in DOMAIN StoredRegistrations' \ DOMAIN StoredRegistrations}
    \cup {StoredPosts'[k].userId : k \in DOMAIN StoredPosts' \ DOMAIN StoredPosts}
    \cup {StoredReplies'[k].userId : k \in DOMAIN StoredReplies' \ DOMAIN StoredReplies}
    \cup {StoredResources'[k].userId :
            k \in DOMAIN StoredResources' \ DOMAIN StoredResources}

\* C26: every event, event registration, forum post, forum reply and resource
\* created through the API has the session user of the creating request as
\* its userId (createdBy for events), whatever the body carries.
C26_CreatedByRequester ==
  [][\A o \in NewOwners :
       \E h \in Requests : StepOf(h) /\ req'[h].user # Anonymous /\ req'[h].user = o]_vars

\* user 2 has created a post and a resource with bodies that name user 1
C26_Witness ==
  /\ \E g, h \in Requests :
       /\ req[g].route = "forum" /\ req[g].status = 201
       /\ req[g].user = 2 /\ req[g].body = [userId |-> 1]
       /\ req[h].route = "resources" /\ req[h].status = 201
       /\ req[h].user = 2 /\ req[h].body = [userId |-> 1]
  /\ DOMAIN StoredPosts # {} /\ DOMAIN StoredResources # {}

\* the stored users with role admin
Admins(usrs) == {k \in DOMAIN usrs : usrs[k].role = "admin"}

\* C27: createUser stores every new user with role "member" and level
\* "beginner", whatever the input carries, so the seeded admin stays the only
\* user with role admin.
C27_NewUsersAreMembers ==
  /\ Admins(StoredUsers) = {AdminId}
  /\ \A k \in DOMAIN StoredUsers \ {AdminId} :
       StoredUsers[k].role = "member" /\ StoredUsers[k].level = "beginner"
  /\ last.op = "createUser" =>
       (Returned[2].id \in DOMAIN StoredUsers /\ StoredUsers[Returned[2].id] = Returned[2])

\* a user was created from an input that carries role admin and level advanced
C27_Witness ==
  /\ last.op = "createUser"
  /\ last.a[1] = [role |-> "admin", level |-> "advanced"]
  /\ Cardinality(DOMAIN StoredUsers) = 2

\* every entity of the collection has its key as id
KeyedById(coll) == \A k \in DOMAIN coll : coll[k].id = k

\* C28: in MemStorage, whatever creates, updates and deletes were run, each
\* entity stored under key k has id = k.
C28_MemKeyIsId ==
  backend = "mem" => \A i \in DOMAIN MemTypes : KeyedById(MemTypes[i][1])

\* a stored reply was updated with an object that carries another id
C28_Witness ==
  /\ backend = "mem" /\ last.op = "updateForumReply"
  /\ last.a[1] \in DOMAIN forumReplies
  /\ "id" \in DOMAIN last.a[2] /\ last.a[2].id # last.a[1]

\* every row's eventId is the id of a stored event
RefersToEvent(rows, evts) == \A k \in DOMAIN rows : rows[k].eventId \in DOMAIN evts

\* C29: in every reachable state each contest result and each event
\* registration has the id of a stored event as eventId.
C29_EventRefsExist ==
  /\ RefersToEvent(StoredResults, StoredEvents)
  /\ RefersToEvent(StoredRegistrations, StoredEvents)

\* an event that had a contest result was deleted
C29_Witness ==
  /\ last.op = "deleteEvent" /\ Returned = Ret(TRUE)
  /\ \/ backend = "pg"
     \/ \E k \in DOMAIN contestResults : contestResults[k].eventId = last.a[1]

====
